---- MODULE Spec2Model ----
(***************************************************************************)
(* Assura Network: the AssuraVerifier contract, the SDK's compliance-data  *)
(* codec and the SDK's signing helpers, as a state machine.                *)
(*                                                                         *)
(* Cryptography is modelled symbolically: keccak256 is an injective        *)
(* constructor, an ECDSA signature carries the key and the digest it was   *)
(* made with, and recovering an altered signature or a signature against   *)
(* another digest yields an address nobody holds the key of.  The trusted  *)
(* signer is an externally owned account, so SignatureChecker takes its    *)
(* ECDSA branch.                                                           *)
(***************************************************************************)
EXTENDS Integers, Sequences, FiniteSets, TLC

VARIABLES
    verifyingData,       \* AssuraVerifier.verifyingData[app][key]
    owner,               \* AssuraVerifier.owner
    ASSURA_TEE_ADDRESS,  \* AssuraVerifier.ASSURA_TEE_ADDRESS
    now,                 \* block.timestamp
    chainid,             \* block.chainid
    req,                 \* the verify call under study: app, key, bundle bytes
    call,                \* the outcome of the last verify call, NoCall once the state may have changed
    bypassEntries,       \* AssuraVerifier.bypassEntries[user][app][functionSelector]
    userAttestations     \* the signer's attestation store: user address -> attestation history

vars == <<verifyingData, owner, ASSURA_TEE_ADDRESS, now, chainid, req, call,
          bypassEntries, userAttestations>>

---------------------------------------------------------------------------
(* Bounds of the model *)

MaxScore == 1
MaxTime == 1
MaxChain == 1

\* scores, expiry times and chain ids held by policies and claims (0: no expiry, any chain)
Scores == 0..MaxScore
Times == 0..MaxTime
ChainIds == 0..MaxChain
\* block.timestamp runs past the last expiry time, and block.chainid may be a chain
\* no policy or claim names
BlockTimes == 0..(MaxTime + 1)
BlockChainIds == 1..(MaxChain + 1)

---------------------------------------------------------------------------
(* Addresses, keys *)

ZeroAddress == "0x0"
JunkAddress == "0xjunk"
VerifierAddress == "verifier"
OwnerAddress == "ownerAddr"
TeePrivKey == "teeKey"
OtherPrivKey == "otherKey"
PrivKeys == {TeePrivKey, OtherPrivKey}

\* A hex string is the sequence of its characters, "0x" included.  The digits
\* of a 32-byte value that are not looked at one by one are kept as one piece
\* of 64 digits.
HexChars == {"0", "1", "2", "3", "4", "5", "6", "7", "8", "9", "a", "b", "c", "d", "e", "f",
             "A", "B", "C", "D", "E", "F"}
HexBlocks == {"key1", "key2"}

\* String.prototype.length
RECURSIVE strLength(_)
strLength(s) ==
    IF s = <<>> THEN 0
    ELSE (IF Head(s) \in HexBlocks THEN 64 ELSE 1) + strLength(Tail(s))

\* String.prototype.startsWith('0x')
startsWith0x(s) == Len(s) >= 2 /\ s[1] = "0" /\ s[2] = "x"

\* String.prototype.padStart(n, c)
padStart(s, n, c) ==
    IF strLength(s) >= n THEN s ELSE [i \in 1..(n - strLength(s)) |-> c] \o s

\* two 32-byte keys, as the hex strings that denote them
Key1 == <<"0", "x", "key1">>
Key2 == <<"0", "x", "key2">>

AddressOf(k) == IF k = TeePrivKey THEN "teeAddr" ELSE "otherAddr"

Apps == {"app1"}
Users == {"user1"}
Callers == {"app1", OwnerAddress}
Keys == {Key1, Key2}
SignerAddresses == {AddressOf(k) : k \in PrivKeys}

ZeroVerifyingData == [score |-> 0, expiry |-> 0, chainId |-> 0]
VerifyingDatas == [score : Scores, expiry : Times, chainId : ChainIds]
AttestedDatas == [score : Scores, timeAtWhichAttested : {0}, chainId : ChainIds]

---------------------------------------------------------------------------
(* Hashing and ABI encoding of static values *)

keccak256(x) == <<"keccak256", x>>

\* abi.encode / encodeAbiParameters of static words: the words in order
abiEncodeWords(ws) == ws

FieldList == <<"uint256 score", "uint256 timeAtWhichAttested", "uint256 chainId">>

encodeType(name, fields) == <<name, fields>>

ACTUAL_ATTESTED_DATA_TYPEHASH == keccak256(encodeType("ActualAttestedData", FieldList))

EIP712DomainTypeHash ==
    keccak256(encodeType("EIP712Domain",
        <<"string name", "string version", "uint256 chainId", "address verifyingContract">>))

hashDomain(domain) ==
    keccak256(abiEncodeWords(<<EIP712DomainTypeHash, keccak256(domain.name),
        keccak256(domain.version), domain.chainId, domain.verifyingContract>>))

\* EIP712("AssuraVerifier", "1"): the contract's own domain
VerifierDomain(cid) ==
    [name |-> "AssuraVerifier", version |-> "1", chainId |-> cid,
     verifyingContract |-> VerifierAddress]

hashTypedDataV4(cid, structHash) ==
    keccak256(<<"x19x01", hashDomain(VerifierDomain(cid)), structHash>>)

\* verify: eip191Hash
eip191Hash(a) ==
    keccak256(<<"x19Ethereum Signed Message:n32",
        keccak256(abiEncodeWords(<<a.score, a.timeAtWhichAttested, a.chainId>>))>>)

eip712HashWithoutScore(cid, a) ==
    hashTypedDataV4(cid, keccak256(abiEncodeWords(
        <<ACTUAL_ATTESTED_DATA_TYPEHASH, a.timeAtWhichAttested, a.chainId>>)))

\* verify: eip712Hash
eip712Hash(cid, a) ==
    hashTypedDataV4(cid, keccak256(abiEncodeWords(
        <<ACTUAL_ATTESTED_DATA_TYPEHASH, a.score, a.timeAtWhichAttested, a.chainId>>)))

---------------------------------------------------------------------------
(* ECDSA, symbolically.  A signature is 65 bytes: r, s, v. *)

EmptyBytes == [length |-> 0, words |-> <<>>]

ecdsaSign(k, hash) ==
    [length |-> 65, words |-> <<[by |-> k, over |-> hash, bits |-> 0], "lowS", 27>>]

\* ECDSA.tryRecover(hash, signature)
tryRecover(hash, signature) ==
    IF signature.length # 65
    THEN [err |-> "InvalidSignatureLength", recovered |-> ZeroAddress]
    ELSE LET r == signature.words[1]
             s == signature.words[2]
             v == signature.words[3]
         IN IF s = "highS"
            THEN [err |-> "InvalidSignatureS", recovered |-> ZeroAddress]
            ELSE IF v \notin {27, 28}
            THEN [err |-> "InvalidSignature", recovered |-> ZeroAddress]
            ELSE IF r.bits = 0 /\ r.over = hash /\ s = "lowS" /\ v = 27
            THEN [err |-> "NoError", recovered |-> AddressOf(r.by)]
            ELSE [err |-> "NoError", recovered |-> JunkAddress]

\* SignatureChecker.isValidSignatureNow(signer, hash, signature), signer an EOA
isValidSignatureNow(signer, hash, signature) ==
    LET rec == tryRecover(hash, signature)
    IN rec.err = "NoError" /\ rec.recovered = signer

---------------------------------------------------------------------------
(* SDK: signing helpers (utils/signatures) *)

\* viem hashTypedData with the types and primaryType createEIP712Signature passes
sdkTypedDataHash(a, domain) ==
    keccak256(<<"x19x01", hashDomain(domain),
        keccak256(abiEncodeWords(<<keccak256(encodeType("AttestedData", FieldList)),
            a.score, a.timeAtWhichAttested, a.chainId>>))>>)

createEIP712Signature(a, domain, signer) ==
    ecdsaSign(signer, sdkTypedDataHash(a, domain))

createEIP191SignatureChainIdFirst(a, signerPrivateKey) ==
    LET encodedData == abiEncodeWords(<<a.chainId, a.timeAtWhichAttested, a.score>>)
        dataHash == keccak256(encodedData)
        messageBytes == <<"x19Ethereum Signed Message:n32", dataHash>>
    IN ecdsaSign(signerPrivateKey, keccak256(messageBytes))

createEIP191Signature(a, signerPrivateKey) ==
    LET encodedData == abiEncodeWords(<<a.score, a.timeAtWhichAttested, a.chainId>>)
        dataHash == keccak256(encodedData)
        messageBytes == <<"x19Ethereum Signed Message:n32", dataHash>>
    IN ecdsaSign(signerPrivateKey, keccak256(messageBytes))

---------------------------------------------------------------------------
(* SDK: compliance-data codec (utils/encoding) *)

\* the key is formatted as 32 bytes: "0x" put in front if missing, other
\* characters than hex digits dropped, zeros put in front up to 64 digits
createComplianceData(userAddress, key, signature, attestedData) ==
    LET keyStr == IF startsWith0x(key) THEN key ELSE <<"0", "x">> \o key
        stripped == SelectSeq(SubSeq(keyStr, 3, Len(keyStr)),
                              LAMBDA c : c \in HexChars \cup HexBlocks)
        hexPart == IF strLength(stripped) = 0 THEN <<"0">> ELSE stripped
        paddedHex == padStart(hexPart, 64, "0")
        paddedKey == <<"0", "x">> \o paddedHex
    IN [userAddress |-> userAddress, key |-> paddedKey,
     signedAttestedDataWithTEESignature |-> signature,
     actualAttestedData |-> attestedData]

\* the ABI encoding of the one-tuple (ComplianceData), as a sequence of 32-byte words
encodeComplianceData(c) ==
    <<32, c.userAddress, c.key, 192,
      c.actualAttestedData.score, c.actualAttestedData.timeAtWhichAttested,
      c.actualAttestedData.chainId,
      c.signedAttestedDataWithTEESignature.length>>
    \o c.signedAttestedDataWithTEESignature.words

---------------------------------------------------------------------------
(* Contract: abi.decode(attestedComplianceData, (ComplianceData)) *)

WordsFor(n) == (n + 31) \div 32

abiDecode(b) ==
    LET W == Len(b)
        bad == [ok |-> FALSE, value |-> <<>>]
    IN IF W < 1 THEN bad
       ELSE LET base == b[1] \div 32
            IN IF b[1] % 32 # 0 \/ base + 6 > W THEN bad
               ELSE LET lenAt == base + (b[base + 3] \div 32) + 1
                    IN IF b[base + 3] % 32 # 0 \/ lenAt > W THEN bad
                       ELSE IF lenAt + WordsFor(b[lenAt]) > W THEN bad
                       ELSE [ok |-> TRUE,
                             value |->
                               [userAddress |-> b[base + 1],
                                key |-> b[base + 2],
                                signedAttestedDataWithTEESignature |->
                                   [length |-> b[lenAt],
                                    words |-> SubSeq(b, lenAt + 1, lenAt + WordsFor(b[lenAt]))],
                                actualAttestedData |->
                                   [score |-> b[base + 4],
                                    timeAtWhichAttested |-> b[base + 5],
                                    chainId |-> b[base + 6]]]]

---------------------------------------------------------------------------
(* SDK: decodeComplianceData, viem's decodeAbiParameters over the same words. *)
(* Addresses and byte strings are values here, not hex strings; a byte       *)
(* string keeps its length and its words, the last one holding the           *)
(* remaining bytes.  The offsets of the encodings modelled are whole words.  *)

\* a decoder that reads only the whole 32-byte words of the signature
decodeComplianceDataWholeWords(encodedData) ==
    LET W == Len(encodedData)
        thrown == [ok |-> FALSE, value |-> <<>>]
    IN IF W < 1 THEN thrown
       ELSE LET start == encodedData[1] \div 32
            IN IF encodedData[1] % 32 # 0 \/ start + 6 > W THEN thrown
               ELSE LET offset == encodedData[start + 3]
                        lenAt == start + (offset \div 32) + 1
                    IN IF offset % 32 # 0 \/ lenAt > W THEN thrown
                       ELSE LET length == encodedData[lenAt]
                            IN IF lenAt + WordsFor(length) > W THEN thrown
                               ELSE [ok |-> TRUE,
                                     value |->
                                       [userAddress |-> encodedData[start + 1],
                                        key |-> encodedData[start + 2],
                                        signedAttestedDataWithTEESignature |->
                                           [length |-> length,
                                            words |-> SubSeq(encodedData, lenAt + 1,
                                                             lenAt + (length \div 32))],
                                        actualAttestedData |->
                                           [score |-> encodedData[start + 4],
                                            timeAtWhichAttested |-> encodedData[start + 5],
                                            chainId |-> encodedData[start + 6]]]]

\* decodeAbiParameters([ComplianceData tuple], encodedData)[0]: the tuple is
\* dynamic, so the first word is its offset; its components are read from
\* there, the bytes through their offset and length; reading past the end
\* throws
decodeComplianceData(encodedData) ==
    LET W == Len(encodedData)
        thrown == [ok |-> FALSE, value |-> <<>>]
    IN IF W < 1 THEN thrown
       ELSE LET start == encodedData[1] \div 32
            IN IF encodedData[1] % 32 # 0 \/ start + 6 > W THEN thrown
               ELSE LET offset == encodedData[start + 3]
                        lenAt == start + (offset \div 32) + 1
                    IN IF offset % 32 # 0 \/ lenAt > W THEN thrown
                       ELSE LET length == encodedData[lenAt]
                            IN IF lenAt + WordsFor(length) > W THEN thrown
                               ELSE [ok |-> TRUE,
                                     value |->
                                       [userAddress |-> encodedData[start + 1],
                                        key |-> encodedData[start + 2],
                                        signedAttestedDataWithTEESignature |->
                                           [length |-> length,
                                            words |-> IF length = 0 THEN <<>>
                                                      ELSE SubSeq(encodedData, lenAt + 1,
                                                                  lenAt + WordsFor(length))],
                                        actualAttestedData |->
                                           [score |-> encodedData[start + 4],
                                            timeAtWhichAttested |-> encodedData[start + 5],
                                            chainId |-> encodedData[start + 6]]]]

---------------------------------------------------------------------------
(* Contract: verify *)

Returned(step, value) == [step |-> step, kind |-> "return", value |-> value, reason |-> ""]
Reverted(step, reason) == [step |-> step, kind |-> "revert", value |-> FALSE, reason |-> reason]

\* a policy taken as expired from its expiry time on
policyExpiredAtExpiry(vData, ts) == vData.expiry # 0 /\ vData.expiry <= ts

\* verify: the expiry check (0 means no expiry)
policyExpired(vData, ts) == vData.expiry # 0 /\ vData.expiry < ts

\* a policy chainId check that takes 0 for a chain like any other
policyChainMismatchStrict(vData, cid) == vData.chainId # cid

\* verify: the policy's chainId check (0 means any chain)
policyChainMismatch(vData, cid) == vData.chainId # 0 /\ vData.chainId # cid

keyMatchesUnchecked(data, key) == TRUE

\* a key check that also wants a subject in the bundle
keyMatchesWithSubject(data, key) == data.key = key /\ data.userAddress # ZeroAddress

\* verify: require(data.key == key)
keyMatches(data, key) == data.key = key

\* verify: the two signature checks
validEIP712(tee, cid, data) ==
    isValidSignatureNow(tee, eip712Hash(cid, data.actualAttestedData),
                        data.signedAttestedDataWithTEESignature)

validEIP191(tee, data) ==
    isValidSignatureNow(tee, eip191Hash(data.actualAttestedData),
                        data.signedAttestedDataWithTEESignature)

isValidStructuredOnly(tee, cid, data) == validEIP712(tee, cid, data)

isValid(tee, cid, data) == validEIP712(tee, cid, data) \/ validEIP191(tee, data)

claimChainUnchecked(vData, cid, data) == FALSE

\* verify: the claim's chainId check
claimChainMismatch(vData, cid, data) ==
    vData.chainId # 0 /\ data.actualAttestedData.chainId # cid

scoreTooLowOrEqual(vData, data) == data.actualAttestedData.score <= vData.score

\* verify: the score requirement
scoreTooLow(vData, data) == data.actualAttestedData.score < vData.score

\* verify with the bundle decoded and its key checked before the policy is looked at
verifyDecodeFirst(vData, tee, ts, cid, key, attestedComplianceData) ==
    LET dec == abiDecode(attestedComplianceData)
    IN IF ~dec.ok THEN Reverted("decode", "")
       ELSE IF ~keyMatches(dec.value, key) THEN Reverted("key", "Key mismatch")
       ELSE IF policyExpired(vData, ts) THEN Returned("expiry", FALSE)
       ELSE IF policyChainMismatch(vData, cid) THEN Returned("policyChainId", FALSE)
       ELSE IF ~isValid(tee, cid, dec.value)
       THEN Reverted("signature", "Signature not from TEE")
       ELSE IF claimChainMismatch(vData, cid, dec.value)
       THEN Returned("claimChainId", FALSE)
       ELSE IF scoreTooLow(vData, dec.value) THEN Returned("score", FALSE)
       ELSE Returned("accept", TRUE)

\* a verify that looks at the score before it checks the signature
verifyScoreBeforeSignature(vData, tee, ts, cid, key, attestedComplianceData) ==
    IF policyExpired(vData, ts) THEN Returned("expiry", FALSE)
    ELSE IF policyChainMismatch(vData, cid) THEN Returned("policyChainId", FALSE)
    ELSE LET dec == abiDecode(attestedComplianceData)
         IN IF ~dec.ok THEN Reverted("decode", "")
            ELSE IF ~keyMatches(dec.value, key) THEN Reverted("key", "Key mismatch")
            ELSE IF scoreTooLow(vData, dec.value) THEN Returned("score", FALSE)
            ELSE IF ~isValid(tee, cid, dec.value)
            THEN Reverted("signature", "Signature not from TEE")
            ELSE IF claimChainMismatch(vData, cid, dec.value)
            THEN Returned("claimChainId", FALSE)
            ELSE Returned("accept", TRUE)

\* verify(app, key, attestedComplianceData) against the policy vData = verifyingData[app][key],
\* the trusted signer tee, block.timestamp ts and block.chainid cid
verify(vData, tee, ts, cid, key, attestedComplianceData) ==
    IF policyExpired(vData, ts) THEN Returned("expiry", FALSE)
    ELSE IF policyChainMismatch(vData, cid) THEN Returned("policyChainId", FALSE)
    ELSE LET dec == abiDecode(attestedComplianceData)
         IN IF ~dec.ok THEN Reverted("decode", "")
            ELSE IF ~keyMatches(dec.value, key) THEN Reverted("key", "Key mismatch")
            ELSE IF ~isValid(tee, cid, dec.value)
            THEN Reverted("signature", "Signature not from TEE")
            ELSE IF claimChainMismatch(vData, cid, dec.value)
            THEN Returned("claimChainId", FALSE)
            ELSE IF scoreTooLow(vData, dec.value) THEN Returned("score", FALSE)
            ELSE Returned("accept", TRUE)

\* AssuraVerifierClient.verify: what the SDK caller sees of an outcome
clientVerify(out) ==
    IF out.kind = "return" THEN [returned |-> out.value, thrown |-> ""]
    ELSE [returned |-> FALSE, thrown |-> IF out.reason = "" THEN "reverted" ELSE out.reason]

---------------------------------------------------------------------------
(* The bundles a client may present *)

\* an altered signature: one bit of r, of s or of v flipped
flipR(sig) == [sig EXCEPT !.words[1].bits = 1]
flipS(sig) == [sig EXCEPT !.words[2] = "lowS'"]
flipV(sig) == [sig EXCEPT !.words[3] = 28]

\* the claim with its score field replaced
withScore(a, s) == [a EXCEPT !.score = s]

\* signatures over the claim a made with key k, for the verifier on chain cid: over
\* the digests the verifier computes
SignaturesBy(k, a, cid) ==
    { ecdsaSign(k, eip712Hash(cid, a)), ecdsaSign(k, eip191Hash(a)) }

\* what a bundle carrying the claim a may hold as its signature: a signature over a,
\* a signature of the SDK's helpers over a, the first signer's signature over a with
\* another score (the score was changed after signing), an altered signature, or
\* nothing
SignaturesFor(a, cid) ==
    UNION { SignaturesBy(TeePrivKey, withScore(a, s), cid) : s \in Scores }
    \cup SignaturesBy(OtherPrivKey, a, cid)
    \cup { createEIP712Signature(a, VerifierDomain(cid), TeePrivKey),
           createEIP191Signature(a, TeePrivKey) }
    \cup { flipR(ecdsaSign(TeePrivKey, eip712Hash(cid, a))),
           flipS(createEIP191Signature(a, TeePrivKey)),
           flipV(ecdsaSign(TeePrivKey, eip712Hash(cid, a))),
           EmptyBytes }

ComplianceDatas(cid) ==
    UNION { { createComplianceData(u, k, sig, a) :
                u \in Users, k \in Keys, sig \in SignaturesFor(a, cid) } :
            a \in AttestedDatas }

\* bytes that are no encoding of a ComplianceData
Malformed(cid) ==
    LET a == [score |-> 0, timeAtWhichAttested |-> 0, chainId |-> 0]
        e == encodeComplianceData(createComplianceData("user1", Key1,
                 ecdsaSign(TeePrivKey, eip712Hash(cid, a)), a))
    IN { <<>>, SubSeq(e, 1, 5), SubSeq(e, 1, Len(e) - 1) }

BundleBytes(cid) ==
    { encodeComplianceData(c) : c \in ComplianceDatas(cid) } \cup Malformed(cid)

---------------------------------------------------------------------------
(* The state machine *)

NoCall == [op |-> "none"]

\* a bypass entry nobody wrote: the mapping's default value.  Besides the three
\* fields of BypassData the ledger keeps whether the entry has been used
ZeroBypassData == [expiry |-> 0, nonce |-> 0, allowed |-> FALSE, consumed |-> FALSE]

\* the bypass mapping and the attestation store before anything was written
NoBypassEntries == [u \in Users |-> [a \in Apps |-> [k \in Keys |-> ZeroBypassData]]]
NoAttestations == [u \in Users |-> <<>>]

Init ==
    /\ verifyingData = [a \in Apps |-> [k \in Keys |-> ZeroVerifyingData]]
    /\ owner = OwnerAddress
    /\ ASSURA_TEE_ADDRESS = AddressOf(TeePrivKey)
    /\ now = 0
    /\ chainid \in BlockChainIds
    /\ req \in [app : Apps, key : Keys, data : BundleBytes(chainid)]
    /\ call = NoCall
    /\ bypassEntries = NoBypassEntries
    /\ userAttestations = NoAttestations

\* getVerifyingData(appContractAddress, key) on the storage vd
getVerifyingData(vd, appContractAddress, key) == vd[appContractAddress][key]

\* a setVerifyingData without the require on msg.sender
setVerifyingDataAnySender(vd, sender, appContractAddress, key, data) ==
    [reverted |-> FALSE,
     verifyingData |-> [vd EXCEPT ![appContractAddress][key] = data]]

\* the call setVerifyingData(appContractAddress, key, data) with msg.sender =
\* sender on the storage vd: whether it reverts, and the storage it leaves
setVerifyingDataCall(vd, sender, appContractAddress, key, data) ==
    IF sender = appContractAddress
    THEN [reverted |-> FALSE,
          verifyingData |-> [vd EXCEPT ![appContractAddress][key] = data]]
    ELSE [reverted |-> TRUE, verifyingData |-> vd]

\* setVerifyingData(appContractAddress, key, data) with msg.sender = sender
setVerifyingData(sender, appContractAddress, key, data) ==
    /\ verifyingData' =
          setVerifyingDataCall(verifyingData, sender, appContractAddress, key, data).verifyingData
    /\ call' = NoCall
    /\ UNCHANGED <<owner, ASSURA_TEE_ADDRESS, now, chainid, req, bypassEntries, userAttestations>>

\* an update that any sender may make
updateAssuraTeeAddressAnySender(tee, own, sender, newAddress) ==
    [reverted |-> FALSE, ASSURA_TEE_ADDRESS |-> newAddress]

\* updateAssuraTeeAddress(_ASSURA_TEE_ADDRESS) by sender on the stored signer tee
\* and owner own: whether it reverts, and the signer stored afterwards
updateAssuraTeeAddressCall(tee, own, sender, newAddress) ==
    IF sender = own
    THEN [reverted |-> FALSE, ASSURA_TEE_ADDRESS |-> newAddress]
    ELSE [reverted |-> TRUE, ASSURA_TEE_ADDRESS |-> tee]

\* updateAssuraTeeAddress(_ASSURA_TEE_ADDRESS) with msg.sender = sender
updateAssuraTeeAddress(sender, newAddress) ==
    /\ ASSURA_TEE_ADDRESS' =
          updateAssuraTeeAddressCall(ASSURA_TEE_ADDRESS, owner, sender,
                                     newAddress).ASSURA_TEE_ADDRESS
    /\ call' = NoCall
    /\ UNCHANGED <<verifyingData, owner, now, chainid, req, bypassEntries, userAttestations>>

\* the outcome of verify(req.app, req.key, req.data) in the current state
VerifyNow(app, key, data) ==
    verify(verifyingData[app][key], ASSURA_TEE_ADDRESS, now, chainid, key, data)

\* a verify that clears the policy it finds expired
VerifyClearingExpired ==
    /\ call' = [op |-> "verify", out |-> VerifyNow(req.app, req.key, req.data)]
    /\ verifyingData' =
          IF policyExpired(verifyingData[req.app][req.key], now)
          THEN [verifyingData EXCEPT ![req.app][req.key] = ZeroVerifyingData]
          ELSE verifyingData
    /\ UNCHANGED <<owner, ASSURA_TEE_ADDRESS, now, chainid, req, bypassEntries, userAttestations>>

\* the client calls verify with its bundle
Verify ==
    /\ call' = [op |-> "verify", out |-> VerifyNow(req.app, req.key, req.data)]
    /\ UNCHANGED <<verifyingData, owner, ASSURA_TEE_ADDRESS, now, chainid, req, bypassEntries, userAttestations>>

\* a block is mined: block.timestamp advances
Tick ==
    /\ now + 1 \in BlockTimes
    /\ now' = now + 1
    /\ call' = NoCall
    /\ UNCHANGED <<verifyingData, owner, ASSURA_TEE_ADDRESS, chainid, req, bypassEntries, userAttestations>>

\* verify reads the one policy slot of its (app, key): the policy calls are those
\* made for that slot, by the app itself and by another sender
Next ==
    \/ \E data \in VerifyingDatas : setVerifyingData(req.app, req.app, req.key, data)
    \/ \E sender \in Callers \ {req.app} :
          setVerifyingData(sender, req.app, req.key, ZeroVerifyingData)
    \/ \E sender \in Callers, a \in SignerAddresses : updateAssuraTeeAddress(sender, a)
    \/ Verify
    \/ Tick

Spec == Init /\ [][Next]_vars

---------------------------------------------------------------------------
(* The policy store on its own: several protected resources, every policy    *)
(* slot, and every sender.  call keeps the outcome of the last               *)
(* setVerifyingData (whether the sender was the app, whether it reverted,    *)
(* whether the storage changed) and, for every slot, the value of the last   *)
(* call the slot's own app made for it.                                      *)

PolicyApps == {"app1", "app2"}
PolicyCallers == PolicyApps \cup {OwnerAddress}
PolicyDatas == [score : Scores, expiry : {0}, chainId : ChainIds]

InitPolicy ==
    /\ verifyingData = [a \in PolicyApps |-> [k \in Keys |-> ZeroVerifyingData]]
    /\ owner = OwnerAddress
    /\ ASSURA_TEE_ADDRESS = AddressOf(TeePrivKey)
    /\ now = 0
    /\ chainid = 1
    /\ req = [app |-> "app1", key |-> Key1, data |-> EmptyBytes]
    /\ call = [op |-> "none", own |-> FALSE, reverted |-> FALSE, changed |-> FALSE,
               last |-> [a \in PolicyApps |-> [k \in Keys |-> ZeroVerifyingData]]]
    /\ bypassEntries = NoBypassEntries
    /\ userAttestations = NoAttestations

\* a transaction calling setVerifyingData(appContractAddress, key, data)
SetPolicy(sender, appContractAddress, key, data) ==
    LET r == setVerifyingDataCall(verifyingData, sender, appContractAddress, key, data)
    IN /\ verifyingData' = r.verifyingData
       /\ call' = [op |-> "setVerifyingData",
                   own |-> (sender = appContractAddress),
                   reverted |-> r.reverted,
                   changed |-> (r.verifyingData # verifyingData),
                   last |-> IF sender = appContractAddress
                            THEN [call.last EXCEPT ![appContractAddress][key] = data]
                            ELSE call.last]
       /\ UNCHANGED <<owner, ASSURA_TEE_ADDRESS, now, chainid, req, bypassEntries, userAttestations>>

NextPolicy ==
    \E sender \in PolicyCallers, a \in PolicyApps, k \in Keys, data \in PolicyDatas :
        SetPolicy(sender, a, k, data)

SpecPolicy == InitPolicy /\ [][NextPolicy]_vars

---------------------------------------------------------------------------
(* Score derivation of the signer service.  A hash is the string of its 64   *)
(* hexadecimal digits (after the "0x"), a sequence of digit values; the hash *)
(* function itself is a table drawn at the start, req.addressHash.  TLC's    *)
(* integers are 32-bit signed, so the number parseInt returns (up to         *)
(* 2^32 - 1) is kept as its two 16-bit halves.                               *)

MaxDigit == 1

\* the digit values the modelled hashes are made of
Digits == (0..MaxDigit) \cup {15}

\* the hashes: 56 high digits, all 0 or all f, and every choice of the low 8
HighDigits == { [i \in 1..56 |-> d] : d \in {0, 15} }
AddressHashes == { hi \o lo : hi \in HighDigits, lo \in [1..8 -> Digits] }

\* keccak256(userAddress) as a hex string
keccak256Hex(userAddress) == req.addressHash[userAddress]

\* String.prototype.slice(-n): the last n characters
sliceLast(str, n) == SubSeq(str, IF Len(str) > n THEN Len(str) - n + 1 ELSE 1, Len(str))

\* the value of at most four hex digits
RECURSIVE hexValue(_)
hexValue(ds) ==
    IF ds = <<>> THEN 0
    ELSE hexValue(SubSeq(ds, 1, Len(ds) - 1)) * 16 + ds[Len(ds)]

\* parseInt(str, 16) of at most eight hex digits: hi * 2^16 + lo
parseInt16(str) ==
    LET n == Len(str)
        cut == IF n > 4 THEN n - 4 ELSE 0
    IN [hi |-> hexValue(SubSeq(str, 1, cut)), lo |-> hexValue(SubSeq(str, cut + 1, n))]

\* n % m for a non-negative n given by its halves
modulo(n, m) == ((n.hi % m) * (65536 % m) + n.lo) % m

\* a score taken from the high 32 bits of the hash
scoreOfHashHighBits(addressHash) == modulo(parseInt16(SubSeq(addressHash, 1, 8)), 1001)

\* parseInt(addressHash.slice(-8), 16) % 1001
scoreOfHash(addressHash) == modulo(parseInt16(sliceLast(addressHash, 8)), 1001)

\* the score of a user
deriveScore(userAddress) == scoreOfHash(keccak256Hex(userAddress))

\* Score derivation on its own: the hash of the user is drawn at the start,
\* scores are derived at different times; call keeps the last derivation and
\* the score the first derivation gave (-1 before it)
ScoreUsers == {"user1"}

InitScore ==
    /\ verifyingData = [a \in Apps |-> [k \in Keys |-> ZeroVerifyingData]]
    /\ owner = OwnerAddress
    /\ ASSURA_TEE_ADDRESS = AddressOf(TeePrivKey)
    /\ now = 0
    /\ chainid = 1
    /\ req \in [addressHash : [ScoreUsers -> AddressHashes]]
    /\ call = [op |-> "none", first |-> [u \in ScoreUsers |-> -1]]
    /\ bypassEntries = NoBypassEntries
    /\ userAttestations = NoAttestations

DeriveScore(userAddress) ==
    LET score == deriveScore(userAddress)
    IN /\ call' = [op |-> "deriveScore", userAddress |-> userAddress, score |-> score,
                   first |-> IF call.first[userAddress] = -1
                             THEN [call.first EXCEPT ![userAddress] = score]
                             ELSE call.first]
       /\ UNCHANGED <<verifyingData, owner, ASSURA_TEE_ADDRESS, now, chainid, req,
                      bypassEntries, userAttestations>>

\* time passes between two derivations
TickScore ==
    /\ now + 1 \in BlockTimes
    /\ now' = now + 1
    /\ call' = [op |-> "none", first |-> call.first]
    /\ UNCHANGED <<verifyingData, owner, ASSURA_TEE_ADDRESS, chainid, req,
                   bypassEntries, userAttestations>>

NextScore ==
    \/ \E u \in ScoreUsers : DeriveScore(u)
    \/ TickScore

SpecScore == InitScore /\ [][NextScore]_vars

---------------------------------------------------------------------------
(* Issuing signed claims.  Two paths lead to a claim signed by the trusted   *)
(* signer: the SDK's TEEClient.getAttestation (POST /attest with the user's  *)
(* address and a chain id) and the deposit form's handleConfirmDeposit (POST *)
(* /api/tee/sign with a claim the form has filled in).  call keeps the last  *)
(* exchange.                                                                 *)

MaxRecords == 1

IssueUsers == {"user1", "user2"}
VaultAddress == "app1"
VaultKey == Key1

\* the hashes of the users: small numbers in the lowest digit
IssueHashes == { h \in AddressHashes : \A i \in 1..63 : h[i] = 0 }

\* what the vault's minScore may be
VaultMinScores == Scores \cup {1000}

\* one record of the attestation store
attestationRecord(userAddress, attestedData, signature, teeAddress) ==
    [userAddress |-> userAddress,
     score |-> attestedData.score,
     timestamp |-> attestedData.timeAtWhichAttested,
     chainId |-> attestedData.chainId,
     signature |-> signature,
     teeAddress |-> teeAddress]

\* a store that keeps only the newest attestation of a user
appendAttestationOverwriting(store, record) ==
    [store EXCEPT ![record.userAddress] = <<record>>]

\* the store after one more attestation of the user
appendAttestation(store, record) ==
    [store EXCEPT ![record.userAddress] = Append(@, record)]

\* POST /attest { userAddress, chainId }: the signer derives the score, signs
\* the claim and answers with it
attest(userAddress, cid, ts) ==
    LET attestedData == [score |-> deriveScore(userAddress),
                         timeAtWhichAttested |-> ts,
                         chainId |-> cid]
    IN [attestedData |-> attestedData,
        signature |-> ecdsaSign(TeePrivKey, eip712Hash(cid, attestedData)),
        teeAddress |-> AddressOf(TeePrivKey),
        userAddress |-> userAddress]

\* POST /api/tee/sign: the answers the form handles.  The request carries
\* a score, a time, a chain id, the verifier's address and the signature
\* type, and no user: a failure, or a signature with the claim it is over,
\* whose score is the request's or one the service picks without the user
teeSign(request) ==
    {[ok |-> FALSE]} \cup
    { [ok |-> TRUE,
       attestedData |-> a,
       signature |-> ecdsaSign(TeePrivKey, eip712Hash(request.chainId, a))] :
      a \in { [score |-> sc,
               timeAtWhichAttested |-> request.timeAtWhichAttested,
               chainId |-> request.chainId] : sc \in {request.score} \cup Scores } }

\* the request handleConfirmDeposit builds from the policy it reads
signRequest(vData, minScore, ts, currentChain) ==
    LET requiredScore == IF vData.score > 0 THEN vData.score ELSE minScore
    IN [score |-> requiredScore + 50,
        timeAtWhichAttested |-> ts,
        chainId |-> IF vData.chainId > 0 THEN vData.chainId ELSE currentChain,
        assuraVerifierAddress |-> VerifierAddress,
        signatureType |-> "eip712"]

InitIssue ==
    /\ verifyingData = [a \in Apps |-> [k \in Keys |-> ZeroVerifyingData]]
    /\ owner = OwnerAddress
    /\ ASSURA_TEE_ADDRESS = AddressOf(TeePrivKey)
    /\ now = 0
    /\ chainid = 1
    /\ req \in [addressHash : [IssueUsers -> IssueHashes], minScore : VaultMinScores]
    /\ call = NoCall
    /\ bypassEntries = NoBypassEntries
    /\ userAttestations = [u \in IssueUsers |-> <<>>]

\* TEEClient.getAttestation(userAddress, chainId) and the service's answer
GetAttestation(userAddress, cid) ==
    LET r == attest(userAddress, cid, now)
    IN /\ Len(userAttestations[userAddress]) < MaxRecords
       /\ userAttestations' =
             appendAttestation(userAttestations,
                 attestationRecord(userAddress, r.attestedData, r.signature, r.teeAddress))
       /\ call' = [op |-> "getAttestation", userAddress |-> userAddress, signed |-> TRUE,
                   attestedData |-> r.attestedData, signature |-> r.signature]
       /\ UNCHANGED <<verifyingData, owner, ASSURA_TEE_ADDRESS, now, chainid, req,
                      bypassEntries>>

\* handleConfirmDeposit of the connected wallet address, up to the bundle it
\* sends to the vault
HandleConfirmDeposit(address) ==
    LET request == signRequest(getVerifyingData(verifyingData, VaultAddress, VaultKey),
                               req.minScore, now, chainid)
    IN \E r \in teeSign(request) :
         /\ call' = IF r.ok
                    THEN [op |-> "handleConfirmDeposit", userAddress |-> address,
                          signed |-> TRUE,
                          attestedData |-> r.attestedData, signature |-> r.signature,
                          complianceData |-> encodeComplianceData(
                              createComplianceData(address, VaultKey, r.signature,
                                                   r.attestedData))]
                    ELSE [op |-> "handleConfirmDeposit", userAddress |-> address,
                          signed |-> FALSE]
         /\ UNCHANGED <<verifyingData, owner, ASSURA_TEE_ADDRESS, now, chainid, req,
                        bypassEntries, userAttestations>>

NextIssue ==
    \/ \E data \in PolicyDatas : setVerifyingData(VaultAddress, VaultAddress, VaultKey, data)
    \/ \E u \in IssueUsers : GetAttestation(u, chainid)
    \/ \E u \in IssueUsers : HandleConfirmDeposit(u)
    \/ Tick

SpecIssue == InitIssue /\ [][NextIssue]_vars

---------------------------------------------------------------------------
(* The codec on its own: a bundle is drawn at the start, then encoded and    *)
(* the encoding decoded.  call keeps the bytes and the decoded bundle.       *)

\* lengths of the signature bytes: empty, one byte, whole words, a word and a
\* byte, an ECDSA signature
CodecLengths == {0, 1, 32, 33, 64, 65}

\* byte strings of those lengths
CodecBytes ==
    { [length |-> n, words |-> SubSeq(sig.words, 1, WordsFor(n))] :
        n \in CodecLengths,
        sig \in { ecdsaSign(k, eip191Hash([score |-> 0, timeAtWhichAttested |-> 0,
                                           chainId |-> 0])) : k \in PrivKeys } }

CodecDatas ==
    { createComplianceData(u, k, sig, a) :
        u \in IssueUsers, k \in Keys, sig \in CodecBytes,
        a \in [score : Scores, timeAtWhichAttested : Times, chainId : ChainIds] }

InitCodec ==
    /\ verifyingData = [a \in Apps |-> [k \in Keys |-> ZeroVerifyingData]]
    /\ owner = OwnerAddress
    /\ ASSURA_TEE_ADDRESS = AddressOf(TeePrivKey)
    /\ now = 0
    /\ chainid = 1
    /\ req \in [complianceData : CodecDatas]
    /\ call = NoCall
    /\ bypassEntries = NoBypassEntries
    /\ userAttestations = NoAttestations

\* encodeComplianceData(complianceData)
Encode ==
    /\ call.op = "none"
    /\ call' = [op |-> "encode", encodedData |-> encodeComplianceData(req.complianceData)]
    /\ UNCHANGED <<verifyingData, owner, ASSURA_TEE_ADDRESS, now, chainid, req,
                   bypassEntries, userAttestations>>

\* decodeComplianceData(encodedData) of the bytes just encoded
Decode ==
    /\ call.op = "encode"
    /\ call' = [op |-> "decode", encodedData |-> call.encodedData,
                decoded |-> decodeComplianceData(call.encodedData)]
    /\ UNCHANGED <<verifyingData, owner, ASSURA_TEE_ADDRESS, now, chainid, req,
                   bypassEntries, userAttestations>>

NextCodec == Encode \/ Decode

SpecCodec == InitCodec /\ [][NextCodec]_vars

---------------------------------------------------------------------------
(* The attestation store under concurrent issuances.  An issuance derives    *)
(* the score and signs the claim at one moment and appends its record at a   *)
(* later one; several may be in flight, for the same user or for different   *)
(* ones.  call keeps the records in flight and the log of the appends made.  *)

MaxAppends == 3

\* GET /user/:address/attestations
allAttestations(store, userAddress) == store[userAddress]

\* GET /user/:address/latest: the last attestation, or none
NoAttestation == [userAddress |-> "none"]
latestAttestation(store, userAddress) ==
    IF store[userAddress] = <<>> THEN NoAttestation
    ELSE store[userAddress][Len(store[userAddress])]

\* GET /stats
RECURSIVE totalAttestations(_, _)
totalAttestations(store, users) ==
    IF users = {} THEN 0
    ELSE LET u == CHOOSE x \in users : TRUE
         IN Len(store[u]) + totalAttestations(store, users \ {u})

storageStats(store) ==
    [totalUsers |-> Cardinality({u \in DOMAIN store : store[u] # <<>>}),
     totalAttestations |-> totalAttestations(store, DOMAIN store)]

InitLedger ==
    /\ verifyingData = [a \in Apps |-> [k \in Keys |-> ZeroVerifyingData]]
    /\ owner = OwnerAddress
    /\ ASSURA_TEE_ADDRESS = AddressOf(TeePrivKey)
    /\ now = 0
    /\ chainid = 1
    /\ req \in [addressHash : [IssueUsers -> IssueHashes]]
    /\ call = [op |-> "attest", pending |-> <<>>, log |-> <<>>]
    /\ bypassEntries = NoBypassEntries
    /\ userAttestations = [u \in IssueUsers |-> <<>>]

\* POST /attest arrives: the claim is built and signed, its record is in flight
StartAttest(userAddress) ==
    LET r == attest(userAddress, chainid, now)
    IN /\ Len(call.pending) + Len(call.log) < MaxAppends
       /\ call' = [call EXCEPT !.pending =
                      Append(@, attestationRecord(userAddress, r.attestedData,
                                                  r.signature, r.teeAddress))]
       /\ UNCHANGED <<verifyingData, owner, ASSURA_TEE_ADDRESS, now, chainid, req,
                      bypassEntries, userAttestations>>

\* one of the issuances in flight appends its record and answers
FinishAttest(i) ==
    /\ i \in 1..Len(call.pending)
    /\ userAttestations' = appendAttestation(userAttestations, call.pending[i])
    /\ call' = [call EXCEPT
                  !.pending = SubSeq(@, 1, i - 1) \o SubSeq(@, i + 1, Len(@)),
                  !.log = Append(@, call.pending[i])]
    /\ UNCHANGED <<verifyingData, owner, ASSURA_TEE_ADDRESS, now, chainid, req,
                   bypassEntries>>

\* time passes while issuances are in flight
TickLedger ==
    /\ now + 1 \in BlockTimes
    /\ now' = now + 1
    /\ UNCHANGED <<verifyingData, owner, ASSURA_TEE_ADDRESS, chainid, req, call,
                   bypassEntries, userAttestations>>

NextLedger ==
    \/ \E u \in IssueUsers : StartAttest(u)
    \/ \E i \in 1..MaxAppends : FinishAttest(i)
    \/ TickLedger

SpecLedger == InitLedger /\ [][NextLedger]_vars

---------------------------------------------------------------------------
(* The bypass ledger and the bypass-aware verification (verifyWithBypass).   *)
(* An entry is absent (nonce 0), pending (now < expiry), active (now >=      *)
(* expiry, not yet used) or consumed (used to gain access).                  *)

MaxNonce == 2

\* getBypassEntry(userAddress, app, functionSelector): the three fields of BypassData
getBypassEntry(entries, userAddress, app, functionSelector) ==
    LET e == entries[userAddress][app][functionSelector]
    IN [expiry |-> e.expiry, nonce |-> e.nonce, allowed |-> e.allowed]

\* scoreDeficit = max(0, policy.minScore - claim.score)
scoreDeficit(vData, attestedData) ==
    IF vData.score > attestedData.score THEN vData.score - attestedData.score ELSE 0

bypassExists(e) == e.nonce > 0
bypassActive(e, ts) == bypassExists(e) /\ ~e.consumed /\ ts >= e.expiry

\* an openOrGet that writes a fresh entry whenever none is active
openOrGetUpsert(e, ts, deficit) ==
    [expiry |-> ts + deficit * 10, nonce |-> e.nonce + 1, allowed |-> TRUE,
     consumed |-> FALSE]

\* an openOrGet that waits one time unit per point of deficit
openOrGetNoFactor(e, ts, deficit) ==
    IF ~bypassExists(e)
    THEN [expiry |-> ts + deficit, nonce |-> 1, allowed |-> TRUE, consumed |-> FALSE]
    ELSE IF ts < e.expiry THEN e
    ELSE IF e.consumed
    THEN [expiry |-> ts + deficit, nonce |-> e.nonce + 1, allowed |-> TRUE,
          consumed |-> FALSE]
    ELSE e

\* an openOrGet that starts every entry at nonce 1
openOrGetNonceOne(e, ts, deficit) ==
    IF ~bypassExists(e)
    THEN [expiry |-> ts + deficit * 10, nonce |-> 1, allowed |-> TRUE, consumed |-> FALSE]
    ELSE IF ts < e.expiry THEN e
    ELSE IF e.consumed
    THEN [expiry |-> ts + deficit * 10, nonce |-> 1, allowed |-> TRUE, consumed |-> FALSE]
    ELSE e

\* an openOrGet that extends the old expiry instead of starting from now
openOrGetFromOldExpiry(e, ts, deficit) ==
    IF ~bypassExists(e)
    THEN [expiry |-> ts + deficit * 10, nonce |-> 1, allowed |-> TRUE, consumed |-> FALSE]
    ELSE IF ts < e.expiry THEN e
    ELSE IF e.consumed
    THEN [expiry |-> e.expiry + deficit * 10, nonce |-> e.nonce + 1, allowed |-> TRUE,
          consumed |-> FALSE]
    ELSE e

\* openOrGet(beneficiary, resource, key, scoreDeficit) on the entry e of that
\* key at time ts: the entry the ledger holds afterwards
openOrGet(e, ts, deficit) ==
    IF ~bypassExists(e)
    THEN [expiry |-> ts + deficit * 10, nonce |-> 1, allowed |-> TRUE, consumed |-> FALSE]
    ELSE IF ts < e.expiry THEN e
    ELSE IF e.consumed
    THEN [expiry |-> ts + deficit * 10, nonce |-> e.nonce + 1, allowed |-> TRUE,
          consumed |-> FALSE]
    ELSE e

\* verifyWithBypass(app, key, attestedComplianceData): verify, and on its
\* rejection at the score check the bypass of (beneficiary, app, key): an
\* active one is used and the call accepts, otherwise openOrGet and reject
verifyWithBypass(entries, vData, tee, ts, cid, app, key, attestedComplianceData) ==
    LET out == verify(vData, tee, ts, cid, key, attestedComplianceData)
    IN IF out.step # "score"
       THEN [out |-> out, bypassEntries |-> entries]
       ELSE LET data == abiDecode(attestedComplianceData).value
                user == data.userAddress
                e == entries[user][app][key]
            IN IF bypassActive(e, ts)
               THEN [out |-> Returned("bypass", TRUE),
                     bypassEntries |->
                        [entries EXCEPT ![user][app][key].consumed = TRUE]]
               ELSE [out |-> out,
                     bypassEntries |->
                        [entries EXCEPT ![user][app][key] =
                            openOrGet(e, ts, scoreDeficit(vData, data.actualAttestedData))]]

\* The bypass-aware verifier as a state machine: the app sets its policies,
\* bundles are presented for its keys, time passes.  call keeps the last
\* verifyWithBypass: its arguments, its outcome and the ledger before it.

\* claim scores and minimum scores giving the deficits 1, 60 and 100, and claims
\* that pass directly
BypassClaimScores == {0, 40, 100}
BypassMinScores == {1, 100}
BypassPolicies == [score : BypassMinScores, expiry : Times, chainId : {0}]

\* bundles of the users for a key: signed by the trusted signer or by another
BypassBundles ==
    { encodeComplianceData(createComplianceData(u, k,
          ecdsaSign(pk, eip191Hash([score |-> sc, timeAtWhichAttested |-> 0, chainId |-> 0])),
          [score |-> sc, timeAtWhichAttested |-> 0, chainId |-> 0])) :
        u \in Users, k \in Keys, pk \in PrivKeys, sc \in BypassClaimScores }

InitBypass ==
    /\ verifyingData = [a \in Apps |-> [k \in Keys |-> ZeroVerifyingData]]
    /\ owner = OwnerAddress
    /\ ASSURA_TEE_ADDRESS = AddressOf(TeePrivKey)
    /\ now = 0
    /\ chainid = 1
    /\ req = [app |-> "app1", key |-> Key1, data |-> EmptyBytes]
    /\ call = NoCall
    /\ bypassEntries = NoBypassEntries
    /\ userAttestations = NoAttestations

\* a transaction calling verifyWithBypass(app, key, data)
VerifyWithBypass(app, key, data) ==
    LET r == verifyWithBypass(bypassEntries, verifyingData[app][key], ASSURA_TEE_ADDRESS,
                              now, chainid, app, key, data)
    IN /\ \A u \in Users : r.bypassEntries[u][app][key].nonce <= MaxNonce
       /\ bypassEntries' = r.bypassEntries
       /\ call' = [op |-> "verifyWithBypass", app |-> app, key |-> key, data |-> data,
                   out |-> r.out, before |-> bypassEntries]
       /\ UNCHANGED <<verifyingData, owner, ASSURA_TEE_ADDRESS, now, chainid, req,
                      userAttestations>>

\* the instants right before, at and right after the expiry of a bypass entry
BypassInstants ==
    UNION { { bypassEntries[u][a][k].expiry - 1, bypassEntries[u][a][k].expiry,
              bypassEntries[u][a][k].expiry + 1 } :
            u \in Users, a \in Apps, k \in Keys }

\* blocks are mined up to such an instant
AdvanceTime ==
    /\ \E t \in BypassInstants : t > now /\ now' = t
    /\ call' = NoCall
    /\ UNCHANGED <<verifyingData, owner, ASSURA_TEE_ADDRESS, chainid, req,
                   bypassEntries, userAttestations>>

\* the app protects its first key with a policy; its second key has none
NextBypass ==
    \/ \E data \in BypassPolicies : setVerifyingData("app1", "app1", Key1, data)
    \/ \E a \in Apps, k \in Keys, data \in BypassBundles : VerifyWithBypass(a, k, data)
    \/ AdvanceTime

SpecBypass == InitBypass /\ [][NextBypass]_vars

---------------------------------------------------------------------------
(* The signer's key sources (tee/src/utils/tee-keys.ts).  A string is the    *)
(* sequence of its characters; a value that may be missing (an unset         *)
(* environment variable, an unreadable file, a failed keygen call) is <<>>,  *)
(* a present one is <<string>>.  req holds the process environment, the key  *)
(* files, the keygen service and the lazily created client; call keeps the   *)
(* last call and its outcome.                                                *)

LocalDevKeyDigits == 64

Whitespace == {" ", "\n"}

undefined == <<>>
Defined(s) == <<s>>

\* s.startsWith('0x') ? s : `0x${s}`
with0x(s) == IF startsWith0x(s) THEN s ELSE <<"0", "x">> \o s

\* String.prototype.trim()
RECURSIVE trim(_)
trim(s) ==
    IF s = <<>> THEN s
    ELSE IF s[1] \in Whitespace THEN trim(Tail(s))
    ELSE IF s[Len(s)] \in Whitespace THEN trim(SubSeq(s, 1, Len(s) - 1))
    ELSE s

\* a value in a condition: undefined and the empty string are falsy
truthy(v) == v # undefined /\ v[1] # <<>>

\* a || b
orElse(a, b) == IF truthy(a) THEN a ELSE b

\* /^0x[0-9a-fA-F]{64}$/.test(s)
isLocalDevKey(s) ==
    /\ Len(s) = 2 + LocalDevKeyDigits
    /\ startsWith0x(s)
    /\ \A i \in 3..Len(s) : s[i] \in HexChars

\* what a call gives: a string, or an Error thrown
Key(s) == [threw |-> FALSE, value |-> s]
Threw(message) == [threw |-> TRUE, value |-> <<message>>]

\* a key id is kept as one piece
DefaultKeyId == <<"evm:base:sepolia">>

\* keyId || process.env.KEY_ID || 'evm:base:sepolia'
keyIdOf(keyId, env) == orElse(orElse(keyId, env.KEY_ID), Defined(DefaultKeyId))[1]

\* roflClient.generateKey(KEY_ID, KeyKind.SECP256K1): the service fails, or
\* gives the key of that id as hex, with or without the prefix
KeyIds == {<<"argid">>, <<"envid">>, DefaultKeyId}
KeygenKeys == [ k \in KeyIds |->
                  CASE k = <<"argid">> -> <<"1", "a">>
                    [] k = <<"envid">> -> <<"1", "b">>
                    [] OTHER -> <<"1", "c">> ]

generateKey(service, keyId) ==
    CASE service = "fails" -> undefined
      [] service = "bare" -> Defined(KeygenKeys[keyId])
      [] OTHER -> Defined(<<"0", "x">> \o KeygenKeys[keyId])

\* the keyPaths, in their order
keyPaths == <<"/run/secrets/private_key", "/run/tee/private_key",
              "/secure/private_key", "cwd/.tee/private_key">>

\* readFileSync(keyPath, 'utf-8'): the content, or undefined when it throws
readFileSync(files, keyPath) == files[keyPath]

\* the for loop over keyPaths from position i on: the first file that reads
RECURSIVE keyFromFiles(_, _)
keyFromFiles(files, i) ==
    IF i > Len(keyPaths) THEN undefined
    ELSE LET content == readFileSync(files, keyPaths[i])
         IN IF content # undefined THEN Defined(with0x(trim(content[1])))
            ELSE keyFromFiles(files, i + 1)

\* the explicit local-only fallback
localDevKey(env) ==
    LET allowLocal == env.ALLOW_LOCAL_DEV = Defined(<<"t", "r", "u", "e">>)
        fallback == env.LOCAL_DEV_SK
    IN IF allowLocal /\ truthy(fallback) /\ isLocalDevKey(fallback[1])
       THEN fallback ELSE undefined

\* the part the two functions share: environment, files, local fallback
keyWithoutKeygen(env, files, message) ==
    LET envKey == orElse(env.TEE_PRIVATE_KEY, env.PRIVATE_KEY)
        fileKey == keyFromFiles(files, 1)
        local == localDevKey(env)
    IN IF truthy(envKey) THEN Key(with0x(envKey[1]))
       ELSE IF fileKey # undefined THEN Key(fileKey[1])
       ELSE IF local # undefined THEN Key(local[1])
       ELSE Threw(message)

\* a key source order that asks the environment before the keygen service
getTeePrivateKeyEnvFirst(keyId, socket, service, env, files) ==
    LET rest == keyWithoutKeygen(env, files, "TEE private key not found")
        hex == IF socket THEN generateKey(service, keyIdOf(keyId, env)) ELSE undefined
    IN IF ~rest.threw \/ hex = undefined THEN rest ELSE Key(with0x(hex[1]))

getTeePrivateKey(keyId, socket, service, env, files) ==
    LET hex == IF socket THEN generateKey(service, keyIdOf(keyId, env)) ELSE undefined
    IN IF hex # undefined THEN Key(with0x(hex[1]))
       ELSE keyWithoutKeygen(env, files, "TEE private key not found")

\* a synchronous version that ends with a built-in development key
getTeePrivateKeySyncDefaultKey(env, files) ==
    LET out == keyWithoutKeygen(env, files, "")
    IN IF out.threw THEN Key(<<"0", "x">> \o [i \in 1..LocalDevKeyDigits |-> "0"]) ELSE out

getTeePrivateKeySync(env, files) ==
    keyWithoutKeygen(env, files, "TEE private key not found (sync method cannot use ROFL keygen)")

\* The environments a signer process is started in
HexKey(c) == [i \in 1..LocalDevKeyDigits |-> c]

KeyEnvs ==
    [ KEY_ID : {undefined, Defined(<<"envid">>)},
      TEE_PRIVATE_KEY : {undefined, Defined(<<>>), Defined(<<"2">>), Defined(<<"0", "x", "2">>)},
      PRIVATE_KEY : {undefined, Defined(<<"3">>), Defined(<<"0", "X", "3">>)},
      ALLOW_LOCAL_DEV : {undefined, Defined(<<"t", "r", "u", "e">>), Defined(<<"1">>)},
      LOCAL_DEV_SK : {undefined,
                      Defined(<<"0", "x">> \o HexKey("8")),
                      Defined(<<"0", "x">> \o Tail(HexKey("8"))),
                      Defined(HexKey("8")),
                      Defined(<<"0", "x", "g">> \o Tail(HexKey("8")))} ]

\* what each key file holds when it can be read
FileContents ==
    [ p \in {keyPaths[i] : i \in 1..Len(keyPaths)} |->
        CASE p = keyPaths[1] -> <<"0", "x", "4", "\n">>
          [] p = keyPaths[2] -> <<"5", "\n">>
          [] p = keyPaths[3] -> <<>>
          [] OTHER -> <<" ", "0", "x", "7">> ]

KeyFiles == { [p \in DOMAIN FileContents |-> IF p \in readable THEN Defined(FileContents[p])
                                              ELSE undefined] :
              readable \in SUBSET DOMAIN FileContents }

KeygenServices == {"fails", "bare", "prefixed"}

InitKeys ==
    /\ verifyingData = [a \in Apps |-> [k \in Keys |-> ZeroVerifyingData]]
    /\ owner = OwnerAddress
    /\ ASSURA_TEE_ADDRESS = AddressOf(TeePrivKey)
    /\ now = 0
    /\ chainid = 1
    /\ req \in [socket : BOOLEAN, service : KeygenServices, env : KeyEnvs,
                files : KeyFiles, client : {"null"}]
    /\ call = [op |-> "none"]
    /\ bypassEntries = NoBypassEntries
    /\ userAttestations = NoAttestations

\* getClient(): the client is created on first use
getClient(client) == IF client = "null" THEN "RoflClient" ELSE client

GetTeePrivateKey(keyId) ==
    /\ call' = [op |-> "getTeePrivateKey", keyId |-> keyId,
                out |-> getTeePrivateKey(keyId, req.socket, req.service, req.env, req.files)]
    /\ req' = [req EXCEPT !.client = IF req.socket THEN getClient(@) ELSE @]
    /\ UNCHANGED <<verifyingData, owner, ASSURA_TEE_ADDRESS, now, chainid,
                   bypassEntries, userAttestations>>

GetTeePrivateKeySync ==
    /\ call' = [op |-> "getTeePrivateKeySync",
                out |-> getTeePrivateKeySync(req.env, req.files)]
    /\ UNCHANGED <<verifyingData, owner, ASSURA_TEE_ADDRESS, now, chainid, req,
                   bypassEntries, userAttestations>>

\* the keygen daemon's socket appears or goes away between two calls
SocketChanges ==
    /\ req' = [req EXCEPT !.socket = ~@]
    /\ call' = [op |-> "none"]
    /\ UNCHANGED <<verifyingData, owner, ASSURA_TEE_ADDRESS, now, chainid,
                   bypassEntries, userAttestations>>

NextKeys ==
    \/ \E keyId \in {undefined, Defined(<<"argid">>)} : GetTeePrivateKey(keyId)
    \/ GetTeePrivateKeySync
    \/ SocketChanges

SpecKeys == InitKeys /\ [][NextKeys]_vars

---------------------------------------------------------------------------
(* The SDK's TEEClient (sdk/src/client/tee-client.ts), one step per await:   *)
(* a request made through retryRequest, the timer between two tries.  req    *)
(* holds the constructed client; call holds the method in progress, its      *)
(* arguments, the runs of retryRequest it made (each with the requests sent  *)
(* and what came back) and, once settled, its outcome.  Time is counted in   *)
(* milliseconds.                                                             *)

MaxRetries == 2
MaxDelay == 2

DefaultMaxRetries == 3
DefaultRetryDelay == 1000
DefaultChainId == 84532
RequestTime == 1

\* a ?? b
nullish(a, b) == IF a = undefined THEN b ELSE a[1]

\* constructor(config)
TEEClient(config) ==
    [ maxRetries |-> nullish(config.maxRetries, DefaultMaxRetries),
      retryDelay |-> nullish(config.retryDelay, DefaultRetryDelay) ]

TEEClientConfigs ==
    [ maxRetries : {undefined} \cup {Defined(n) : n \in 0..MaxRetries},
      retryDelay : {undefined} \cup {Defined(d) : d \in {0, MaxDelay}} ]

\* errors: a plain Error has a message only; an axios error has a code and,
\* when the service answered, the status and body of the answer
Error(message) ==
    [message |-> message, code |-> "", status |-> 0, requiresRegistration |-> FALSE]
AxiosError(code, status, requiresRegistration) ==
    [message |-> "Request failed", code |-> code, status |-> status,
     requiresRegistration |-> requiresRegistration]
NoError == Error("")

\* what awaiting one request gives: a response with its data, or an error
NoData == [attestedData |-> "", signature |-> "", address |-> ""]
Response(data) == [ok |-> TRUE, data |-> data, error |-> NoError]
Failure(error) == [ok |-> FALSE, data |-> undefined, error |-> error]

\* the answers of the service, by path
AddressAnswers ==
    { Response(Defined([NoData EXCEPT !.address = "teeAddr"])),
      Response(Defined(NoData)),
      Failure(AxiosError("ECONNREFUSED", 0, FALSE)) }

AttestAnswers ==
    { Response(Defined([NoData EXCEPT !.attestedData = "claim", !.signature = "sig"])),
      Response(Defined([NoData EXCEPT !.attestedData = "claim"])),
      Response(undefined),
      Failure(AxiosError("ERR_BAD_REQUEST", 409, FALSE)),
      Failure(AxiosError("ERR_BAD_REQUEST", 403, TRUE)),
      Failure(AxiosError("ECONNREFUSED", 0, FALSE)) }

AnswersTo(request) == IF request.path = "/address" THEN AddressAnswers ELSE AttestAnswers

\* the requests
GetAddress == [method |-> "get", path |-> "/address", userAddress |-> "",
               chainId |-> 0, username |-> undefined]

\* if (username) requestBody.username = username
PostAttest(userAddress, chainId, username) ==
    [method |-> "post", path |-> "/attest", userAddress |-> userAddress,
     chainId |-> nullish(chainId, DefaultChainId),
     username |-> IF username # undefined /\ username[1] # "" THEN username ELSE undefined]

\* retryRequest(fn, maxRetries?, delay?): its first lines
retryRequest(this, request, maxRetries, delay) ==
    [ request |-> request,
      retries |-> nullish(maxRetries, this.maxRetries),
      retryDelay |-> nullish(delay, this.retryDelay),
      i |-> 0, pc |-> "for", attempts |-> <<>>, slept |-> <<>>,
      result |-> Response(undefined) ]

\* i < retries
inLoop(run) == run.i < run.retries

\* a last try recognised one iteration late
isLastTryLate(run) == run.i = run.retries

\* i === retries - 1
isLastTry(run) == run.i = run.retries - 1

\* try { return await fn() } catch (error) { if (i === retries - 1) throw error; ... }
retryTry(run, ts, answer) ==
    LET tried == [run EXCEPT !.attempts = Append(@, [at |-> ts, answer |-> answer])]
    IN IF answer.ok THEN [tried EXCEPT !.pc = "returned", !.result = answer]
       ELSE IF isLastTry(run) THEN [tried EXCEPT !.pc = "threw", !.result = answer]
       ELSE [tried EXCEPT !.pc = "setTimeout"]

\* throw new Error("Max retries exceeded")
retryExhausted(run) ==
    [run EXCEPT !.pc = "threw", !.result = Failure(Error("Max retries exceeded"))]

\* the timer resolves: i++
retryTimer(run, ts) ==
    [run EXCEPT !.pc = "for", !.i = @ + 1, !.slept = Append(@, ts)]

\* outcome of a method
Resolved(value) == [threw |-> FALSE, value |-> value, error |-> NoError]
Rejected(error) == [threw |-> TRUE, value |-> NoData, error |-> error]

\* getTeeAddress, after its retryRequest has settled
getTeeAddressEnd(result) ==
    LET thrown == IF result.ok THEN Error("Invalid response from TEE service")
                  ELSE result.error
    IN IF result.ok /\ result.data # undefined /\ result.data[1].address # ""
       THEN Resolved(result.data[1])
       ELSE IF thrown.code = "ECONNREFUSED" THEN Rejected(Error("Cannot connect to TEE service"))
       ELSE Rejected(Error("Failed to fetch TEE address"))

\* !response.data || !response.data.attestedData || !response.data.signature
invalidAttestation(result) ==
    \/ result.data = undefined
    \/ result.data[1].attestedData = ""
    \/ result.data[1].signature = ""

\* a conflict answered like any other failure
getAttestationCatchNoConflict(error, username) ==
    IF error.code = "ECONNREFUSED" THEN "connect"
    ELSE IF error.status = 403 /\ error.requiresRegistration THEN "register"
    ELSE "failed"

\* the catch block of getAttestation: which branch it takes
getAttestationCatch(error, username) ==
    IF error.code = "ECONNREFUSED" THEN "connect"
    ELSE IF error.status = 403 /\ error.requiresRegistration THEN "register"
    ELSE IF error.status = 409 /\ username # undefined /\ username[1] # "" THEN "retry"
    ELSE "failed"

\* the method in progress moves on once its current run has settled
settled(c, this) ==
    LET run == c.runs[Len(c.runs)]
        result == run.result
    IN CASE c.op = "getTeeAddress" ->
              [c EXCEPT !.pc = "done", !.out = getTeeAddressEnd(result)]
         [] c.op = "getAttestation" /\ Len(c.runs) = 1 ->
              LET thrown == IF result.ok THEN Error("Invalid response from TEE service")
                            ELSE result.error
                  branch == getAttestationCatch(thrown, c.username)
              IN IF result.ok /\ ~invalidAttestation(result)
                 THEN [c EXCEPT !.pc = "done", !.out = Resolved(result.data[1])]
                 ELSE CASE branch = "connect" ->
                             [c EXCEPT !.pc = "done",
                                       !.out = Rejected(Error("Cannot connect to TEE service"))]
                        [] branch = "register" ->
                             [c EXCEPT !.pc = "done",
                                       !.out = Rejected(Error("User not registered"))]
                        [] branch = "retry" ->
                             [c EXCEPT !.runs = Append(@,
                                 retryRequest(this, PostAttest(c.userAddress, c.chainId, undefined),
                                              undefined, undefined))]
                        [] OTHER ->
                             [c EXCEPT !.pc = "done",
                                       !.out = Rejected(Error("Failed to get attestation"))]
         [] OTHER ->
              IF result.ok /\ ~invalidAttestation(result)
              THEN [c EXCEPT !.pc = "done", !.out = Resolved(result.data[1])]
              ELSE IF result.ok
              THEN [c EXCEPT !.pc = "done",
                             !.out = Rejected(Error("Invalid response from TEE service"))]
              ELSE [c EXCEPT !.pc = "done", !.out = Rejected(result.error)]

\* a run has settled when it returned or threw
runSettled(run) == run.pc \in {"returned", "threw"}

\* the call after its current run has become newRun
afterRun(c, this, newRun) ==
    LET c1 == [c EXCEPT !.runs[Len(c.runs)] = newRun]
    IN IF runSettled(newRun) THEN settled(c1, this) ELSE c1

ClientUsernames == {undefined, Defined(""), Defined("alice")}
ClientChainIds == {undefined, Defined(1)}

InitClient ==
    /\ verifyingData = [a \in Apps |-> [k \in Keys |-> ZeroVerifyingData]]
    /\ owner = OwnerAddress
    /\ ASSURA_TEE_ADDRESS = AddressOf(TeePrivKey)
    /\ now = 0
    /\ chainid = 1
    /\ req \in {[this |-> TEEClient(config)] : config \in TEEClientConfigs}
    /\ call = [op |-> "none"]
    /\ bypassEntries = NoBypassEntries
    /\ userAttestations = NoAttestations

CurrentRun == call.runs[Len(call.runs)]

InProgress == call.op # "none" /\ call.pc = "running"

StartGetTeeAddress ==
    /\ call.op = "none"
    /\ call' = [op |-> "getTeeAddress", userAddress |-> "", chainId |-> undefined,
                username |-> undefined, pc |-> "running",
                runs |-> <<retryRequest(req.this, GetAddress, undefined, undefined)>>,
                out |-> Resolved(NoData)]
    /\ UNCHANGED <<verifyingData, owner, ASSURA_TEE_ADDRESS, now, chainid, req,
                   bypassEntries, userAttestations>>

StartGetAttestation(userAddress, chainId, username) ==
    /\ call.op = "none"
    /\ call' = [op |-> "getAttestation", userAddress |-> userAddress, chainId |-> chainId,
                username |-> username, pc |-> "running",
                runs |-> <<retryRequest(req.this, PostAttest(userAddress, chainId, username),
                                        undefined, undefined)>>,
                out |-> Resolved(NoData)]
    /\ UNCHANGED <<verifyingData, owner, ASSURA_TEE_ADDRESS, now, chainid, req,
                   bypassEntries, userAttestations>>

\* one pass through the loop body: the request is sent and answered
Try(answer) ==
    /\ InProgress /\ CurrentRun.pc = "for" /\ inLoop(CurrentRun)
    /\ answer \in AnswersTo(CurrentRun.request)
    /\ now' = now + RequestTime
    /\ call' = afterRun(call, req.this, retryTry(CurrentRun, now, answer))
    /\ UNCHANGED <<verifyingData, owner, ASSURA_TEE_ADDRESS, chainid, req,
                   bypassEntries, userAttestations>>

\* the loop condition fails
LoopEnds ==
    /\ InProgress /\ CurrentRun.pc = "for" /\ ~inLoop(CurrentRun)
    /\ call' = afterRun(call, req.this, retryExhausted(CurrentRun))
    /\ UNCHANGED <<verifyingData, owner, ASSURA_TEE_ADDRESS, now, chainid, req,
                   bypassEntries, userAttestations>>

\* setTimeout(resolve, retryDelay) resolves
TimerFires ==
    /\ InProgress /\ CurrentRun.pc = "setTimeout"
    /\ now' = now + CurrentRun.retryDelay
    /\ call' = afterRun(call, req.this, retryTimer(CurrentRun, now + CurrentRun.retryDelay))
    /\ UNCHANGED <<verifyingData, owner, ASSURA_TEE_ADDRESS, chainid, req,
                   bypassEntries, userAttestations>>

NextClient ==
    \/ StartGetTeeAddress
    \/ \E u \in Users, c \in ClientChainIds, n \in ClientUsernames : StartGetAttestation(u, c, n)
    \/ \E answer \in AddressAnswers \cup AttestAnswers : Try(answer)
    \/ LoopEnds
    \/ TimerFires

SpecClient == InitClient /\ [][NextClient]_vars

\* every request is answered or times out, and every timer fires
SpecClientFair == SpecClient /\ WF_vars(NextClient)

---------------------------------------------------------------------------
(* The quick start: a protected contract registers the policy of a function  *)
(* under bytes32(selector) and checks compliance under that key; the client  *)
(* builds its bundle with createComplianceData(user, selector, ...).         *)

\* function selectors: 4 bytes, as hex strings
FunctionSelectors ==
    { <<"0", "x">> \o [i \in 1..8 |-> "0"],
      <<"0", "x", "b", "6", "b", "5", "5", "f", "2", "5">>,
      <<"0", "x">> \o [i \in 1..6 |-> "0"] \o <<"0", "1">> }

\* Solidity bytes32(bytes4): the four bytes, then zero bytes
bytes32(selector) ==
    <<"0", "x">> \o SubSeq(selector, 3, Len(selector))
                 \o [i \in 1..(64 - (Len(selector) - 2)) |-> "0"]

ProtectedKeys == {bytes32(s) : s \in FunctionSelectors}

\* the signature of the trusted signer over a claim, in either encoding
SignatureTypes == {"eip712", "eip191"}
teeSignature(signatureType, a, cid) ==
    IF signatureType = "eip712" THEN ecdsaSign(TeePrivKey, eip712Hash(cid, a))
    ELSE createEIP191Signature(a, TeePrivKey)

InitQuickStart ==
    /\ verifyingData = [a \in Apps |-> [k \in ProtectedKeys |-> ZeroVerifyingData]]
    /\ owner = OwnerAddress
    /\ ASSURA_TEE_ADDRESS = AddressOf(TeePrivKey)
    /\ now = 0
    /\ chainid = 1
    /\ req = [app |-> "app1"]
    /\ call = NoCall
    /\ bypassEntries = NoBypassEntries
    /\ userAttestations = NoAttestations

\* the client encodes its bundle for the function and calls it; the contract's
\* modifier has the verifier check it under bytes32(selector)
ProtectedCall(selector, userAddress, attestedData, signatureType) ==
    LET signature == teeSignature(signatureType, attestedData, chainid)
        complianceData == createComplianceData(userAddress, selector, signature, attestedData)
        encoded == encodeComplianceData(complianceData)
        key == bytes32(selector)
    IN /\ call' = [op |-> "requireCompliance", selector |-> selector, key |-> key,
                   complianceData |-> complianceData,
                   policy |-> verifyingData[req.app][key],
                   out |-> VerifyNow(req.app, key, encoded)]
       /\ UNCHANGED <<verifyingData, owner, ASSURA_TEE_ADDRESS, now, chainid, req,
                      bypassEntries, userAttestations>>

\* the constructor of the protected contract sets the requirement of a function
NextQuickStart ==
    \/ \E s \in FunctionSelectors, score \in Scores :
          setVerifyingData(req.app, req.app, bytes32(s),
                           [score |-> score, expiry |-> 0, chainId |-> 0])
    \/ \E s \in FunctionSelectors, u \in Users, a \in AttestedDatas, t \in SignatureTypes :
          ProtectedCall(s, u, a, t)
    \/ Tick

SpecQuickStart == InitQuickStart /\ [][NextQuickStart]_vars

---------------------------------------------------------------------------
(* The trusted signer over time: the owner and others call                   *)
(* updateAssuraTeeAddress, a client verifies its bundle in between.  call    *)
(* keeps the last call; for an update, who made it, whether it reverted and  *)
(* what verify said of the bundle just before it.                            *)

\* the addresses an update may name
NewSignerAddresses == SignerAddresses \cup {ZeroAddress}

\* bundles carrying a signature of one of the signers, or none
SignerBundles(cid) ==
    UNION { { encodeComplianceData(createComplianceData(u, Key1, sig, a)) :
                u \in Users,
                sig \in {ecdsaSign(k, eip712Hash(cid, a)) : k \in PrivKeys}
                        \cup {ecdsaSign(k, eip191Hash(a)) : k \in PrivKeys}
                        \cup {EmptyBytes} } :
            a \in AttestedDatas }

InitSigner ==
    /\ verifyingData = [a \in Apps |-> [k \in Keys |-> ZeroVerifyingData]]
    /\ owner = OwnerAddress
    /\ ASSURA_TEE_ADDRESS \in SignerAddresses
    /\ now = 0
    /\ chainid = 1
    /\ req \in [app : Apps, key : {Key1}, data : SignerBundles(chainid)]
    /\ call = NoCall
    /\ bypassEntries = NoBypassEntries
    /\ userAttestations = NoAttestations

UpdateAssuraTeeAddress(sender, newAddress) ==
    LET r == updateAssuraTeeAddressCall(ASSURA_TEE_ADDRESS, owner, sender, newAddress)
    IN /\ ASSURA_TEE_ADDRESS' = r.ASSURA_TEE_ADDRESS
       /\ call' = [op |-> "updateAssuraTeeAddress", sender |-> sender,
                   newAddress |-> newAddress, reverted |-> r.reverted,
                   before |-> VerifyNow(req.app, req.key, req.data)]
       /\ UNCHANGED <<verifyingData, owner, now, chainid, req, bypassEntries,
                      userAttestations>>

NextSigner ==
    \/ \E sender \in Callers, a \in NewSignerAddresses : UpdateAssuraTeeAddress(sender, a)
    \/ \E data \in PolicyDatas : setVerifyingData(req.app, req.app, req.key, data)
    \/ Verify
    \/ Tick

SpecSigner == InitSigner /\ [][NextSigner]_vars

---------------------------------------------------------------------------
(* What the properties speak of: the call under study, and the conditions of *)
(* the verifier's algorithm stated on their own, not through verify's code.  *)

Called == call.op = "verify"
Out == call.out
Accepted == Called /\ Out.kind = "return" /\ Out.value = TRUE
Policy == verifyingData[req.app][req.key]
Decodes == abiDecode(req.data).ok
Bundle == abiDecode(req.data).value
Claim == Bundle.actualAttestedData
Signature == Bundle.signedAttestedDataWithTEESignature

Unexpired == Policy.expiry = 0 \/ now <= Policy.expiry
PolicyContextMatches == Policy.chainId = 0 \/ Policy.chainId = chainid
ClaimContextMatches == Policy.chainId = 0 \/ Claim.chainId = chainid

\* the private keys of the trusted signer address
TrustedKeys == { k \in PrivKeys : AddressOf(k) = ASSURA_TEE_ADDRESS }

\* sig is an unaltered signature of the trusted signer over the structured digest of a
SignedStructured(sig, a) ==
    \E k \in TrustedKeys : sig = ecdsaSign(k, eip712Hash(chainid, a))

\* sig is an unaltered signature of the trusted signer over the legacy digest of a
SignedLegacy(sig, a) ==
    \E k \in TrustedKeys : sig = ecdsaSign(k, eip191Hash(a))

SignedByTrusted(sig, a) == SignedStructured(sig, a) \/ SignedLegacy(sig, a)

\* the bundle with its claim's score replaced and signed again, in the same
\* encoding, by the trusted signer
Lowered(s) ==
    LET a == withScore(Claim, s)
        k == CHOOSE k \in PrivKeys : AddressOf(k) = ASSURA_TEE_ADDRESS
        sig == IF SignedStructured(Signature, Claim)
               THEN ecdsaSign(k, eip712Hash(chainid, a))
               ELSE ecdsaSign(k, eip191Hash(a))
    IN encodeComplianceData(createComplianceData(Bundle.userAddress, Bundle.key, sig, a))

---------------------------------------------------------------------------
(* C1.  verify accepts whenever the policy stored for (app, key) is          *)
(* unexpired and context-matching (its chainId is 0, or equals both          *)
(* block.chainid and the claim's chainId), the bundle's key equals key, the  *)
(* signature is the trusted signer's and claim.score >= policy.score; the    *)
(* same call with only the score lowered below policy.score, signed again    *)
(* for the lowered claim, returns false at the score check.                  *)
C1_AcceptAndScoreFlip ==
    (/\ Called /\ Decodes
     /\ Unexpired /\ PolicyContextMatches /\ ClaimContextMatches
     /\ Bundle.key = req.key
     /\ SignedByTrusted(Signature, Claim)
     /\ Claim.score >= Policy.score)
    => /\ Out = Returned("accept", TRUE)
       /\ \A s \in Scores :
            s < Policy.score =>
               VerifyNow(req.app, req.key, Lowered(s)) = Returned("score", FALSE)

C1_Witness ==
    /\ Accepted
    /\ Policy.score > 0 /\ Policy.expiry # 0 /\ Policy.chainId # 0
    /\ Claim.score = Policy.score

---------------------------------------------------------------------------
(* C2.  verify applies its checks in the order policy expiry, policy         *)
(* context, bundle decode, key match, signature, claim context, score, and   *)
(* stops at the first that fails: the step it ends at is the first failing   *)
(* check of that list, whatever the later ones would say.  Against an        *)
(* expired policy it ends at the expiry check whatever the bundle bytes are, *)
(* and a bundle with a wrong key ends at the key check whatever its          *)
(* signature is.                                                             *)
C2_FirstFailure ==
    IF ~Unexpired THEN "expiry"
    ELSE IF ~PolicyContextMatches THEN "policyChainId"
    ELSE IF ~Decodes THEN "decode"
    ELSE IF Bundle.key # req.key THEN "key"
    ELSE IF ~SignedByTrusted(Signature, Claim) THEN "signature"
    ELSE IF ~ClaimContextMatches THEN "claimChainId"
    ELSE IF Claim.score < Policy.score THEN "score"
    ELSE "accept"

C2_CheckOrder == Called => Out.step = C2_FirstFailure

C2_Witness ==
    /\ Called /\ Out.step = "expiry"
    /\ ~PolicyContextMatches
    /\ ~Decodes

---------------------------------------------------------------------------
(* C3.  A bundle whose key field differs from the key verify is called with  *)
(* is never accepted, even with a valid signature and a sufficient score;    *)
(* when the policy checks pass the call reverts with "Key mismatch".         *)
C3_KeyMismatchRejected ==
    (Called /\ Decodes /\ Bundle.key # req.key)
    => /\ ~Accepted
       /\ (Unexpired /\ PolicyContextMatches) => Out = Reverted("key", "Key mismatch")

C3_Witness ==
    /\ Called /\ Decodes /\ Bundle.key # req.key
    /\ SignedByTrusted(Signature, Claim)
    /\ ClaimContextMatches /\ Claim.score >= Policy.score
    /\ Out = Reverted("key", "Key mismatch")

---------------------------------------------------------------------------
(* C4.  A call that gets as far as the signature step passes it if and only  *)
(* if the signature is the trusted signer's over the EIP-712 digest or over  *)
(* the EIP-191 digest of the claim's three fields; otherwise it reverts with *)
(* "Signature not from TEE"; and a call that reaches the claim-context       *)
(* check, the score check or acceptance carries such a signature.            *)
C4_SignatureStep ==
    Called =>
      /\ Out.step \in {"signature", "claimChainId", "score", "accept"} =>
            /\ Decodes
            /\ (Out.step # "signature") <=> SignedByTrusted(Signature, Claim)
            /\ Out.step = "signature" => Out = Reverted("signature", "Signature not from TEE")
      /\ Out.step \in {"claimChainId", "score", "accept"} =>
            Decodes /\ SignedByTrusted(Signature, Claim)

C4_Witness ==
    /\ Called /\ Decodes
    /\ SignedLegacy(Signature, Claim) /\ ~SignedStructured(Signature, Claim)
    /\ Out.step = "score"

---------------------------------------------------------------------------
(* C5.  A signature made by createEIP712Signature over the claim, with the   *)
(* trusted signer's key and the verifier's own EIP-712 domain, is over the   *)
(* digest verify recomputes on its EIP-712 path, and that path accepts it.   *)
C5_StructuredEncodingAgrees ==
    (/\ Called /\ Decodes
     /\ \E k \in TrustedKeys :
           Signature = createEIP712Signature(Claim, VerifierDomain(chainid), k))
    => /\ sdkTypedDataHash(Claim, VerifierDomain(chainid)) = eip712Hash(chainid, Claim)
       /\ validEIP712(ASSURA_TEE_ADDRESS, chainid, Bundle)

---------------------------------------------------------------------------
(* C6.  A signature made by createEIP191Signature over the claim with the    *)
(* trusted signer's key is over the digest verify recomputes on its EIP-191  *)
(* path, that path accepts it, and verify does not fail at its signature     *)
(* step.                                                                     *)
C6_LegacyEncodingAgrees ==
    (/\ Called /\ Decodes
     /\ \E k \in TrustedKeys : Signature = createEIP191Signature(Claim, k))
    => /\ Signature.words[1].over = eip191Hash(Claim)
       /\ validEIP191(ASSURA_TEE_ADDRESS, Bundle)
       /\ Out.step # "signature"

C6_Witness ==
    /\ Called /\ Decodes
    /\ Signature = createEIP191Signature(Claim, TeePrivKey)
    /\ Policy.score > 0
    /\ Out = Returned("accept", TRUE)

---------------------------------------------------------------------------
(* C7.  Tampering is detected.  When the bundle is one whose signature       *)
(* passes the signature step, with its claim's score then changed, or with   *)
(* one bit of its signature then flipped, both the EIP-712 and the EIP-191   *)
(* check fail on it and verify does not accept it.                           *)
C7_ScoreChanged ==
    \E s \in Scores :
       /\ s # Claim.score
       /\ isValid(ASSURA_TEE_ADDRESS, chainid,
                  [Bundle EXCEPT !.actualAttestedData = withScore(Claim, s)])

C7_SignatureFlipped ==
    \E k \in PrivKeys : \E g \in SignaturesBy(k, Claim, chainid) :
       /\ Signature \in {flipR(g), flipS(g), flipV(g)}
       /\ isValid(ASSURA_TEE_ADDRESS, chainid,
                  [Bundle EXCEPT !.signedAttestedDataWithTEESignature = g])

C7_TamperingDetected ==
    (Called /\ Decodes /\ (C7_ScoreChanged \/ C7_SignatureFlipped))
    => /\ ~validEIP712(ASSURA_TEE_ADDRESS, chainid, Bundle)
       /\ ~validEIP191(ASSURA_TEE_ADDRESS, Bundle)
       /\ ~Accepted

C7_Witness ==
    /\ Called /\ Decodes /\ C7_ScoreChanged
    /\ Bundle.key = req.key
    /\ Claim.score >= Policy.score /\ Policy.score > 0
    /\ Out = Reverted("signature", "Signature not from TEE")

---------------------------------------------------------------------------
(* C8.  With policy.chainId = 0 verify never rejects at either context       *)
(* check, whatever block.chainid and the claim's chainId are; with           *)
(* policy.chainId = c # 0 it accepts only if block.chainid = c and the       *)
(* claim's chainId = c.                                                      *)
C8_ContextRestriction ==
    Called =>
      /\ Policy.chainId = 0 => Out.step \notin {"policyChainId", "claimChainId"}
      /\ (Policy.chainId # 0 /\ Accepted) =>
            /\ chainid = Policy.chainId
            /\ Decodes /\ Claim.chainId = Policy.chainId

C8_Witness ==
    /\ Accepted /\ Decodes
    /\ Policy.chainId # 0 /\ chainid = Policy.chainId /\ Claim.chainId = Policy.chainId

---------------------------------------------------------------------------
(* C9.  Every failure of verify is reported with a rejection reason: a call  *)
(* that does not accept never ends as a bare false, neither at the contract  *)
(* nor for the caller of AssuraVerifierClient.verify.                        *)
C9_TypedRejection ==
    (Called /\ ~Accepted)
    => /\ ~(Out.kind = "return" /\ Out.value = FALSE)
       /\ clientVerify(Out).thrown # ""

---------------------------------------------------------------------------
(* C10.  verify changes no state: a verify call leaves every stored policy,  *)
(* the trusted signer address and the owner as they were, and with them the  *)
(* result of every verify call on the bundle.                                *)
C10_VerifyReadOnly ==
    [][ call'.op = "verify" =>
          /\ verifyingData' = verifyingData
          /\ ASSURA_TEE_ADDRESS' = ASSURA_TEE_ADDRESS
          /\ owner' = owner
          /\ \A a \in Apps, k \in Keys :
                VerifyNow(a, k, req.data)' = VerifyNow(a, k, req.data) ]_vars

C10_Witness ==
    /\ Called
    /\ ~Unexpired
    /\ ASSURA_TEE_ADDRESS # AddressOf(TeePrivKey)

---------------------------------------------------------------------------
(* C11.  After any sequence of setVerifyingData calls the policy read for    *)
(* (app, key) is the value of the most recent call app itself made for that  *)
(* key, the all-zero policy if it made none; a call made for app by any      *)
(* other sender reverts, and a call that reverts leaves every stored policy  *)
(* as it was.                                                                *)
C11_StoredIsLastOwn ==
    /\ \A a \in PolicyApps, k \in Keys :
          getVerifyingData(verifyingData, a, k) = call.last[a][k]
    /\ call.op = "setVerifyingData" =>
          /\ call.reverted <=> ~call.own
          /\ call.reverted => ~call.changed

C11_Witness ==
    /\ call.op = "setVerifyingData" /\ call.reverted
    /\ \E a \in PolicyApps, k \in Keys :
          /\ verifyingData[a][k] # ZeroVerifyingData
          /\ \E b \in PolicyApps, j \in Keys :
                <<b, j>> # <<a, k>> /\ verifyingData[b][j] # verifyingData[a][k]

---------------------------------------------------------------------------
(* C13.  deriveScore(subject) is the low 32 bits of the hash of the subject  *)
(* (its last eight hex digits, read as an unsigned number) modulo 1001: the  *)
(* result lies in 0..1000, and a later derivation for the same subject       *)
(* gives the score the first one gave.                                       *)
RECURSIVE C13_Residue(_)
C13_Residue(ds) ==
    IF ds = <<>> THEN 0
    ELSE (C13_Residue(SubSeq(ds, 1, Len(ds) - 1)) * 16 + ds[Len(ds)]) % 1001

C13_Low32(h) == [i \in 1..8 |-> h[56 + i]]

C13_ScoreIsLow32Mod1001 ==
    call.op = "deriveScore" =>
        /\ call.score = C13_Residue(C13_Low32(req.addressHash[call.userAddress]))
        /\ call.score \in 0..1000
        /\ call.score = call.first[call.userAddress]

C13_Witness ==
    /\ call.op = "deriveScore" /\ now > 0
    /\ req.addressHash[call.userAddress][57] = 15
    /\ req.addressHash[call.userAddress][1] = 0
    /\ call.score > 0

---------------------------------------------------------------------------
(* C12.  The score in every claim the trusted signer signs for a subject is  *)
(* the one score derivation computes for that subject, whatever score the    *)
(* signing request carried, and it lies in 0..1000.                          *)
C12_SignedScoreIsDerived ==
    (call.op \in {"getAttestation", "handleConfirmDeposit"} /\ call.signed) =>
        /\ call.attestedData.score = deriveScore(call.userAddress)
        /\ call.attestedData.score \in 0..1000

---------------------------------------------------------------------------
(* C14.  decodeComplianceData(encodeComplianceData(x)) = x for every valid   *)
(* bundle x: decoding does not throw, and the subject, the key, the          *)
(* signature bytes (of any length, empty included) and the three claim       *)
(* fields come back as they went in.                                         *)
C14_RoundTrip ==
    call.op = "decode" =>
        /\ call.decoded.ok
        /\ call.decoded.value.userAddress = req.complianceData.userAddress
        /\ call.decoded.value.key = req.complianceData.key
        /\ call.decoded.value.signedAttestedDataWithTEESignature =
              req.complianceData.signedAttestedDataWithTEESignature
        /\ call.decoded.value.actualAttestedData = req.complianceData.actualAttestedData
        /\ call.decoded.value = req.complianceData

C14_Witness ==
    /\ call.op = "decode" /\ call.decoded.ok
    /\ req.complianceData.signedAttestedDataWithTEESignature.length = 33
    /\ req.complianceData.actualAttestedData.score # req.complianceData.actualAttestedData.chainId

---------------------------------------------------------------------------
(* What the bypass properties speak of: the last verifyWithBypass, the       *)
(* policy and the claim it was about, and the entry of its (beneficiary,     *)
(* app, key) before and after it.                                            *)
BCalled == call.op = "verifyWithBypass"
BData == abiDecode(call.data).value
BClaim == BData.actualAttestedData
BPolicy == verifyingData[call.app][call.key]
BBefore == call.before[BData.userAddress][call.app][call.key]
BAfter == bypassEntries[BData.userAddress][call.app][call.key]
BDeficit == BPolicy.score - BClaim.score
BRejected == call.out.kind = "return" /\ call.out.value = FALSE
BAccepted == call.out.kind = "return" /\ call.out.value = TRUE

\* the call passes every check but the score check: unexpired policy, matching
\* key, the trusted signer's signature, and a score below the policy's
BOnlyScoreFails ==
    /\ BCalled /\ abiDecode(call.data).ok
    /\ (BPolicy.expiry = 0 \/ now <= BPolicy.expiry)
    /\ (BPolicy.chainId = 0 \/ (BPolicy.chainId = chainid /\ BClaim.chainId = chainid))
    /\ BData.key = call.key
    /\ \E k \in PrivKeys :
          /\ AddressOf(k) = ASSURA_TEE_ADDRESS
          /\ BData.signedAttestedDataWithTEESignature \in
                {ecdsaSign(k, eip191Hash(BClaim)), ecdsaSign(k, eip712Hash(chainid, BClaim))}
    /\ BClaim.score < BPolicy.score

---------------------------------------------------------------------------
---------------------------------------------------------------------------
---------------------------------------------------------------------------
---------------------------------------------------------------------------
---------------------------------------------------------------------------
(* C19.  Once an entry has become active and has been used to gain access,   *)
(* the next bypass-aware verification for its key that fails the score check *)
(* is rejected and replaces it with a pending entry: nonce one more, expiry  *)
(* now + 10 * (the new deficit), allowed true.                               *)
C19_RecreatedAfterUse ==
    (BOnlyScoreFails /\ BBefore.consumed) =>
        /\ BRejected
        /\ getBypassEntry(bypassEntries, BData.userAddress, call.app, call.key)
              = [expiry |-> now + 10 * BDeficit, nonce |-> BBefore.nonce + 1,
                 allowed |-> TRUE]
        /\ ~BAfter.consumed /\ now < BAfter.expiry

C19_Witness ==
    /\ BOnlyScoreFails /\ BBefore.consumed /\ BBefore.nonce = 1
    /\ BAfter.nonce = 2 /\ BAfter.expiry - now # BBefore.expiry

---------------------------------------------------------------------------
(* C20.  The attestation store is append-only: after any interleaving of     *)
(* issuances, concurrent ones for the same user included, the attestations   *)
(* of a user are exactly the records appended for that user, in the order of *)
(* the appends (so none was changed or lost), the latest one is the last of  *)
(* them, none when there is none, and the statistics count them all.         *)
C20_RecordsOf(u) ==
    LET IsOf(r) == r.userAddress = u
    IN SelectSeq(call.log, IsOf)

C20_AppendOnly ==
    /\ \A u \in IssueUsers :
          /\ allAttestations(userAttestations, u) = C20_RecordsOf(u)
          /\ latestAttestation(userAttestations, u) =
                IF C20_RecordsOf(u) = <<>> THEN NoAttestation
                ELSE C20_RecordsOf(u)[Len(C20_RecordsOf(u))]
    /\ storageStats(userAttestations).totalAttestations = Len(call.log)

C20_Witness ==
    /\ Len(call.log) = 3
    /\ \E u \in IssueUsers :
          /\ Len(userAttestations[u]) = 2
          /\ userAttestations[u][1].timestamp > userAttestations[u][2].timestamp

---------------------------------------------------------------------------
(* C21.  getTeePrivateKey and getTeePrivateKeySync never return a built-in   *)
(* or default key: a key they return is the text some source provided (with  *)
(* 0x put in front where it lacked it), and when no source is available      *)
(* (no socket or a failing keygen, no non-empty TEE_PRIVATE_KEY or           *)
(* PRIVATE_KEY, no readable key file, no local fallback enabled by           *)
(* ALLOW_LOCAL_DEV = 'true' together with a LOCAL_DEV_SK of 0x and 64 hex    *)
(* digits) the call ends with an error.                                      *)
KeyCalled == call.op \in {"getTeePrivateKey", "getTeePrivateKeySync"}

Prefixed(s) == <<"0", "x">> \o s

Has0x(s) == Len(s) >= 2 /\ <<s[1], s[2]>> = <<"0", "x">>

NonBlank(s) == SelectSeq(s, LAMBDA c : c \notin {" ", "\n"})

KeygenAvailable == call.op = "getTeePrivateKey" /\ req.socket /\ req.service # "fails"

EnvAvailable(name) == req.env[name] # <<>> /\ req.env[name] # << <<>> >>

FileAvailable(p) == req.files[p] # <<>>

LocalAvailable ==
    /\ req.env.ALLOW_LOCAL_DEV = << <<"t", "r", "u", "e">> >>
    /\ req.env.LOCAL_DEV_SK # <<>>
    /\ LET sk == req.env.LOCAL_DEV_SK[1]
       IN /\ Len(sk) = 66
          /\ SubSeq(sk, 1, 2) = <<"0", "x">>
          /\ \A i \in 3..66 : sk[i] \in HexChars

\* the texts the sources provide
ProvidedKeys ==
    {KeygenKeys[k] : k \in KeyIds} \cup {Prefixed(KeygenKeys[k]) : k \in KeyIds}
    \cup {req.env[n][1] : n \in {n \in {"TEE_PRIVATE_KEY", "PRIVATE_KEY", "LOCAL_DEV_SK"} :
                                   req.env[n] # <<>>}}
    \cup {NonBlank(req.files[p][1]) : p \in {p \in DOMAIN req.files : FileAvailable(p)}}

C21_NoDefaultKey ==
    KeyCalled =>
        /\ ~call.out.threw =>
              \E s \in ProvidedKeys : call.out.value \in {s, Prefixed(s)}
        /\ ( /\ ~KeygenAvailable
             /\ ~EnvAvailable("TEE_PRIVATE_KEY") /\ ~EnvAvailable("PRIVATE_KEY")
             /\ \A p \in DOMAIN req.files : ~FileAvailable(p)
             /\ ~LocalAvailable )
           => call.out.threw

\* both functions fail: the keygen call fails behind a present socket, the
\* environment key is empty, no file reads, and the fallback key is a digit short
C21_Witness ==
    /\ call.op = "getTeePrivateKey" /\ call.out.threw
    /\ req.socket /\ req.service = "fails"
    /\ req.env.TEE_PRIVATE_KEY = << <<>> >>
    /\ req.env.ALLOW_LOCAL_DEV = << <<"t", "r", "u", "e">> >>
    /\ req.env.LOCAL_DEV_SK # <<>> /\ Len(req.env.LOCAL_DEV_SK[1]) = 65
    /\ getTeePrivateKeySync(req.env, req.files).threw

---------------------------------------------------------------------------
(* C22.  getTeePrivateKey returns the key of the first available source in   *)
(* the order keygen, TEE_PRIVATE_KEY, PRIVATE_KEY, the key files in their    *)
(* listed order, LOCAL_DEV_SK; a lower source is never used while a higher   *)
(* one is available; the key returned starts with 0x.                        *)
C22_Sources ==
    << IF KeygenAvailable THEN {KeygenKeys[k] : k \in KeyIds} ELSE {},
       IF EnvAvailable("TEE_PRIVATE_KEY") THEN {req.env.TEE_PRIVATE_KEY[1]} ELSE {},
       IF EnvAvailable("PRIVATE_KEY") THEN {req.env.PRIVATE_KEY[1]} ELSE {} >>
    \o [i \in 1..4 |-> IF FileAvailable(keyPaths[i])
                       THEN {NonBlank(req.files[keyPaths[i]][1])} ELSE {}]
    \o << IF LocalAvailable THEN {req.env.LOCAL_DEV_SK[1]} ELSE {} >>

C22_FirstAvailable == { i \in 1..Len(C22_Sources) :
                          C22_Sources[i] # {} /\ \A j \in 1..(i - 1) : C22_Sources[j] = {} }

C22_PriorityOrder ==
    call.op = "getTeePrivateKey" =>
        /\ call.out.threw <=> C22_FirstAvailable = {}
        /\ \A i \in C22_FirstAvailable :
              /\ \E s \in C22_Sources[i] :
                    call.out.value = IF Has0x(s) THEN s ELSE Prefixed(s)
              /\ Has0x(call.out.value)

\* PRIVATE_KEY is used although key files and the local fallback are there,
\* because keygen fails and TEE_PRIVATE_KEY is empty
C22_Witness ==
    /\ call.op = "getTeePrivateKey" /\ ~call.out.threw
    /\ req.socket /\ req.service = "fails"
    /\ req.env.TEE_PRIVATE_KEY = << <<>> >>
    /\ call.out.value = <<"0", "x", "0", "X", "3">>
    /\ \A p \in DOMAIN req.files : FileAvailable(p)
    /\ LocalAvailable

---------------------------------------------------------------------------
(* C23.  A run of retryRequest with maxRetries = n >= 1 sends the request at *)
(* most n times; a successful answer is the last one asked for and is what   *)
(* the run returns; between a failed request and the next at least           *)
(* retryDelay passes; a run that throws has made n requests, all failed, and *)
(* throws the error of the n-th; and every method call started settles.      *)
C23_Runs == IF call.op = "none" THEN {} ELSE {call.runs[r] : r \in 1..Len(call.runs)}

C23_RunBounded(run) ==
    LET made == Len(run.attempts)
        n == run.retries
    IN n >= 1 =>
        /\ made <= n
        /\ \A j \in 1..made : run.attempts[j].answer.ok => j = made /\ run.pc = "returned"
        /\ run.pc = "returned" =>
              /\ made >= 1 /\ run.attempts[made].answer.ok
              /\ run.result = run.attempts[made].answer
        /\ \A j \in 1..(made - 1) :
              run.attempts[j + 1].at >= run.attempts[j].at + RequestTime + run.retryDelay
        /\ run.pc = "threw" =>
              /\ made = n
              /\ \A j \in 1..n : ~run.attempts[j].answer.ok
              /\ run.result = run.attempts[n].answer

C23_Settled == call.op # "none" /\ call.pc = "done"

C23_BoundedRetry ==
    /\ [](\A run \in C23_Runs : C23_RunBounded(run))
    /\ (call.op # "none") ~> C23_Settled

\* two tries, refused with different errors a delay apart; the second error is thrown
C23_Witness ==
    /\ C23_Settled
    /\ LET run == call.runs[1]
       IN /\ run.retries = 2 /\ run.retryDelay > 0 /\ run.pc = "threw"
          /\ Len(run.attempts) = 2
          /\ run.attempts[1].answer.error.status = 403
          /\ run.attempts[2].answer.error.code = "ECONNREFUSED"
          /\ run.result.error.code = "ECONNREFUSED"
          /\ run.attempts[2].at = run.attempts[1].at + RequestTime + run.retryDelay

---------------------------------------------------------------------------
(* C24.  getAttestation called with a username, whose request carrying the   *)
(* username is answered 409 every time it is sent, asks again for the same   *)
(* subject and chain without the username and returns what that request      *)
(* gives; it fails only when that request fails or comes back without        *)
(* attestedData or signature.                                                *)
C24_Conflict ==
    /\ call.op = "getAttestation" /\ call.pc = "done"
    /\ call.username \notin {<<>>, <<"">>}
    /\ Len(call.runs[1].attempts) >= 1
    /\ \A j \in 1..Len(call.runs[1].attempts) :
          call.runs[1].attempts[j].answer.error.status = 409

C24_ConflictIsNotAnError ==
    C24_Conflict =>
        /\ call.runs[1].request.username = call.username
        /\ Len(call.runs) = 2
        /\ LET again == call.runs[2]
               got == again.result
               complete == /\ got.ok /\ got.data # <<>>
                           /\ got.data[1].attestedData # "" /\ got.data[1].signature # ""
           IN /\ again.request = [call.runs[1].request EXCEPT !.username = <<>>]
              /\ again.pc \in {"returned", "threw"}
              /\ call.out.threw <=> ~complete
              /\ complete => call.out.value = got.data[1]

\* the name is taken on both tries; the request without it fails once, then succeeds
C24_Witness ==
    /\ C24_Conflict
    /\ Len(call.runs[1].attempts) = 2
    /\ Len(call.runs) = 2 /\ Len(call.runs[2].attempts) = 2
    /\ ~call.out.threw /\ call.out.value.signature = "sig"

---------------------------------------------------------------------------
(* C25.  For every 4-byte selector S the key of the bundle that              *)
(* createComplianceData(user, S, signature, claim) builds is bytes32(S), the *)
(* key the protected contract registers and checks, so that a bundle signed  *)
(* by the trusted signer with a sufficient score passes the key check and is *)
(* accepted.                                                                 *)
C25_QuickStartKeyMatches ==
    call.op = "requireCompliance" =>
        /\ call.complianceData.key = call.key
        /\ call.complianceData.actualAttestedData.score >= call.policy.score
              => call.out = Returned("accept", TRUE)

---------------------------------------------------------------------------
(* C26.  A policy with expiry 0 never makes a verification end at the        *)
(* policy-expired check; a policy with expiry e # 0 makes it end there       *)
(* exactly when e < now; a verification at now = e is decided by the         *)
(* remaining checks, as it would be with no expiry at all.                   *)
C26_ExpiryBoundary ==
    Called =>
        /\ Policy.expiry = 0 => Out.step # "expiry"
        /\ Policy.expiry # 0 => (Out = Returned("expiry", FALSE) <=> Policy.expiry < now)
        /\ Policy.expiry = now =>
              Out = verify([Policy EXCEPT !.expiry = 0], ASSURA_TEE_ADDRESS, now, chainid,
                           req.key, req.data)

C26_Witness ==
    /\ Accepted
    /\ Policy.expiry # 0 /\ Policy.expiry = now

---------------------------------------------------------------------------
(* C28.  Against the all-zero policy of an (app, key) pair never set, verify *)
(* accepts every bundle that carries that key and a signature of the trusted *)
(* signer, whatever the claim's score and chainId, block.chainid and the     *)
(* time are.                                                                 *)
C28_UnsetPolicyAcceptsAll ==
    (/\ Called /\ Policy = ZeroVerifyingData
     /\ Decodes /\ Bundle.key = req.key
     /\ SignedByTrusted(Signature, Claim))
    => Out = Returned("accept", TRUE)

C28_Witness ==
    /\ Accepted /\ Policy = ZeroVerifyingData
    /\ Claim.score = 0 /\ Claim.chainId # chainid
    /\ now > 0

---------------------------------------------------------------------------
(* C29.  The outcome of verify does not depend on the subject of the bundle: *)
(* the same bundle with any other userAddress in it gets the same outcome,   *)
(* so an accepted bundle is accepted for every subject.                      *)
C29_Subjects == Users \cup {"user2", ZeroAddress}

C29_Rebundled(u) ==
    encodeComplianceData(createComplianceData(u, Bundle.key, Signature, Claim))

C29_SubjectNotBound ==
    (Called /\ Decodes) =>
        \A u \in C29_Subjects : VerifyNow(req.app, req.key, C29_Rebundled(u)) = Out

C29_Witness ==
    /\ Accepted /\ Policy.score > 0
    /\ \E u \in C29_Subjects :
          /\ u # Bundle.userAddress
          /\ C29_Rebundled(u) # req.data
          /\ VerifyNow(req.app, req.key, C29_Rebundled(u)) = Returned("accept", TRUE)

---------------------------------------------------------------------------
(* C30.  Attestations are time-bounded: a bundle accepted against a policy   *)
(* without expiry is not accepted at every later time, the policy and the    *)
(* trusted signer staying as they are; from some age of the claim on it is   *)
(* rejected.                                                                 *)
C30_LaterTimes == { t \in BlockTimes : t > now }

C30_TimeBounded ==
    (Accepted /\ Policy.expiry = 0 /\ C30_LaterTimes # {})
    => \E t \in C30_LaterTimes :
          verify(Policy, ASSURA_TEE_ADDRESS, t, chainid, req.key, req.data)
             # Returned("accept", TRUE)

---------------------------------------------------------------------------
(* C27.  The owner is the non-zero address given at construction and never   *)
(* changes.  The trusted signer changes only in an updateAssuraTeeAddress    *)
(* call made by the owner, to the address that call names; the call of       *)
(* anyone else reverts and leaves it as it was.  A verification is accepted  *)
(* only on a signature of the signer stored at that moment, so a bundle      *)
(* accepted before an update to another address is rejected after it.        *)
C27_Step ==
    /\ owner' = owner /\ owner' # ZeroAddress
    /\ ASSURA_TEE_ADDRESS' # ASSURA_TEE_ADDRESS =>
          /\ call'.op = "updateAssuraTeeAddress"
          /\ call'.sender = owner /\ ~call'.reverted
          /\ ASSURA_TEE_ADDRESS' = call'.newAddress
    /\ call'.op = "updateAssuraTeeAddress" =>
          /\ call'.reverted <=> call'.sender # owner
          /\ call'.reverted => ASSURA_TEE_ADDRESS' = ASSURA_TEE_ADDRESS
          /\ ~call'.reverted => ASSURA_TEE_ADDRESS' = call'.newAddress
          /\ (call'.before = Returned("accept", TRUE)
                /\ ASSURA_TEE_ADDRESS' # ASSURA_TEE_ADDRESS)
             => VerifyNow(req.app, req.key, req.data)'
                   = Reverted("signature", "Signature not from TEE")
    /\ call'.op = "verify" /\ call'.out = Returned("accept", TRUE) =>
          \E k \in PrivKeys :
             /\ AddressOf(k) = ASSURA_TEE_ADDRESS'
             /\ Signature \in {ecdsaSign(k, eip712Hash(chainid, Claim)),
                               ecdsaSign(k, eip191Hash(Claim))}

C27_OnlyOwnerUpdatesSigner == [][C27_Step]_vars

\* the owner has replaced the signer whose bundle was accepted just before,
\* against a policy asking for a score; verify now rejects the bundle
C27_Witness ==
    /\ call.op = "updateAssuraTeeAddress" /\ ~call.reverted
    /\ call.before = Returned("accept", TRUE)
    /\ Policy.score > 0
    /\ ASSURA_TEE_ADDRESS = AddressOf(OtherPrivKey)
    /\ Signature = ecdsaSign(TeePrivKey, eip712Hash(chainid, Claim))
    /\ VerifyNow(req.app, req.key, req.data) = Reverted("signature", "Signature not from TEE")

====
